---- MODULE Spec2Model ----
(***************************************************************************)
(* A model of the CDCL SAT solver of src/src/lib.rs (Solver, add_clause,   *)
(* propagate, analyze, backtrack, solve) and of its XOR / Gaussian         *)
(* elimination preprocessor, src/src/preprocessing.rs.                     *)
(*                                                                         *)
(* Indices are the ones of the source (0-based): a clause index c denotes  *)
(* clauses[c + 1] of the TLA+ sequence, trail position i denotes           *)
(* trail[i + 1].  Option::None of an index is NoReason.                    *)
(***************************************************************************)
EXTENDS Integers, Sequences, FiniteSets, TLC

\* Bounds of the model.
MaxVars == 3
MaxLen == 3
MaxClauses == 2

\* Option<usize>::None, for reason[] and for propagate's conflict.
NoReason == -1

VARIABLES
    num_vars,        \* Solver.num_vars
    clauses,         \* Solver.clauses: sequence of [lits, learned]
    watches,         \* Solver.watches: literal -> sequence of [clause_idx, blocker]
    assignments,     \* Solver.assignments: variable -> VarValue
    level,           \* Solver.level
    reason,          \* Solver.reason
    trail,           \* Solver.trail
    trail_lim,       \* Solver.trail_lim
    q_head,          \* Solver.q_head
    analyze_seen,    \* Solver.analyze_seen
    analyze_toclear, \* Solver.analyze_toclear
    analyze_clause,  \* Solver.analyze_clause
    pc,              \* where the caller / solve() stands
    verdict,         \* what solve returned: "none" until it returns
    conflict_idx,    \* solve's conflict_idx (NoReason when no conflict is pending)
    learned_clause,  \* solve's learned_clause
    backtrack_level, \* solve's backtrack_level
    level_before,    \* history: decision level at which the pending conflict arose
    inserted,        \* history: the literal sets passed to add_clause so far
    n_adds,          \* history: number of add_clause calls so far
    add_failed,      \* history: some add_clause call returned false
    pre_result,      \* history: what preprocess returned in solve
    calls,           \* history: the heuristic hooks the last step called, in order
    script,          \* the caller's remaining operations, when it follows a script
    heur             \* the BranchingStrategy object handed to solve

solver_vars == <<num_vars, clauses, watches, assignments, level, reason, trail,
                 trail_lim, q_head, analyze_seen, analyze_toclear, analyze_clause>>
vars == <<num_vars, clauses, watches, assignments, level, reason, trail,
          trail_lim, q_head, analyze_seen, analyze_toclear, analyze_clause,
          pc, verdict, conflict_idx, learned_clause, backtrack_level, level_before,
          inserted, n_adds, add_failed, pre_result, calls, script, heur>>

-----------------------------------------------------------------------------
\* Lit: variable v is 2*v (positive) and 2*v + 1 (negative).

Lit_new(v, is_negated) == 2 * v + (IF is_negated THEN 1 ELSE 0)

Lit_var(l) == l \div 2

Lit_is_neg(l) == (l % 2) # 0

Lit_not(l) == IF l % 2 = 0 THEN l + 1 ELSE l - 1

Vars(n) == 0 .. (n - 1)

Lits(n) == 0 .. (2 * n - 1)

\* VarValue
Unassigned == "Unassigned"
VTrue == "True"
VFalse == "False"

value_lit(asg, lit) ==
    LET v == asg[Lit_var(lit)]
    IN  IF v = Unassigned THEN Unassigned
        ELSE IF v = VTrue THEN (IF Lit_is_neg(lit) THEN VFalse ELSE VTrue)
        ELSE (IF Lit_is_neg(lit) THEN VTrue ELSE VFalse)

-----------------------------------------------------------------------------
\* Vec helpers: sort_by_key(|l| l.to_usize()), dedup, swap.

RECURSIVE insert_sorted(_, _)
insert_sorted(s, x) ==
    IF s = <<>> THEN <<x>>
    ELSE IF x < Head(s) THEN <<x>> \o s
    ELSE <<Head(s)>> \o insert_sorted(Tail(s), x)

RECURSIVE sort_by_key(_)
sort_by_key(s) ==
    IF s = <<>> THEN <<>> ELSE insert_sorted(sort_by_key(Tail(s)), Head(s))

RECURSIVE dedup(_)
dedup(s) ==
    IF Len(s) < 2 THEN s
    ELSE IF s[1] = s[2] THEN dedup(Tail(s))
    ELSE <<s[1]>> \o dedup(Tail(s))

\* lits.swap(a, b), with 0-based positions a and b
swap(s, a, b) == [s EXCEPT ![a + 1] = s[b + 1], ![b + 1] = s[a + 1]]

Range(s) == {s[i] : i \in 1 .. Len(s)}

-----------------------------------------------------------------------------
\* The solver as a record, so that the methods are operators on it.

Self ==
    [num_vars |-> num_vars, clauses |-> clauses, watches |-> watches,
     assignments |-> assignments, level |-> level, reason |-> reason,
     trail |-> trail, trail_lim |-> trail_lim, q_head |-> q_head,
     analyze_seen |-> analyze_seen, analyze_toclear |-> analyze_toclear,
     analyze_clause |-> analyze_clause]

Solver_new(n) ==
    [num_vars |-> n, clauses |-> <<>>,
     watches |-> [l \in Lits(n) |-> <<>>],
     assignments |-> [v \in Vars(n) |-> Unassigned],
     level |-> [v \in Vars(n) |-> 0],
     reason |-> [v \in Vars(n) |-> NoReason],
     trail |-> <<>>, trail_lim |-> <<>>, q_head |-> 0,
     analyze_seen |-> [v \in Vars(n) |-> FALSE],
     analyze_toclear |-> <<>>, analyze_clause |-> <<>>]

decision_level(S) == Len(S.trail_lim)

\* a watch entry that records the negation of the blocker
Watcher_negated(c, b) == [clause_idx |-> c, blocker |-> Lit_not(b)]

Watcher(c, b) == [clause_idx |-> c, blocker |-> b]

\* an enqueue that does not look at the variable's value
unchecked_enqueue_blind(S, lit, why) ==
    [S EXCEPT !.assignments[Lit_var(lit)] = IF Lit_is_neg(lit) THEN VFalse ELSE VTrue,
              !.level[Lit_var(lit)] = decision_level(S),
              !.reason[Lit_var(lit)] = why,
              !.trail = Append(@, lit)]

\* an enqueue that records the root level whatever the decision level is
unchecked_enqueue_root(S, lit, why) ==
    LET v == Lit_var(lit)
    IN  IF S.assignments[v] # Unassigned THEN S
        ELSE [S EXCEPT !.assignments[v] = IF Lit_is_neg(lit) THEN VFalse ELSE VTrue,
                       !.level[v] = 0,
                       !.reason[v] = why,
                       !.trail = Append(@, lit)]

unchecked_enqueue(S, lit, why) ==
    LET v == Lit_var(lit)
    IN  IF S.assignments[v] # Unassigned THEN S
        ELSE [S EXCEPT !.assignments[v] = IF Lit_is_neg(lit) THEN VFalse ELSE VTrue,
                       !.level[v] = decision_level(S),
                       !.reason[v] = why,
                       !.trail = Append(@, lit)]

-----------------------------------------------------------------------------
\* propagate.  A loop state L of the inner loop (over the detached watch list)
\* is [S, watchers, i, j, conflict, panic]; i and j are the source's cursors.

\* first k in 2 .. len-1 with lits[k] not False, or -1
RECURSIVE find_new(_, _, _)
find_new(asg, lits, k) ==
    IF k >= Len(lits) THEN -1
    ELSE IF value_lit(asg, lits[k + 1]) # VFalse THEN k
    ELSE find_new(asg, lits, k + 1)

\* lines 289-343: the watcher at i is inspected through its clause
inspect_clause(L, p) ==
    LET S == L.S
        w == L.watchers[L.i + 1]
        cr_idx == w.clause_idx
        false_lit == Lit_not(p)
    IN  IF cr_idx >= Len(S.clauses) THEN [L EXCEPT !.panic = TRUE]
        ELSE
        LET lits0 == S.clauses[cr_idx + 1].lits
        IN  IF Len(lits0) = 0 \/ (lits0[1] = false_lit /\ Len(lits0) < 2)
            THEN [L EXCEPT !.panic = TRUE]
            ELSE
            LET lits1 == IF lits0[1] = false_lit THEN swap(lits0, 0, 1) ELSE lits0
                S1 == [S EXCEPT !.clauses[cr_idx + 1].lits = lits1]
            IN  IF value_lit(S.assignments, lits1[1]) = VTrue
                THEN \* update the blocker, keep watching
                     [L EXCEPT !.S = S1,
                               !.watchers = [(@) EXCEPT ![L.j + 1] =
                                                Watcher(cr_idx, lits1[1]),
                                             ![L.i + 1] = Watcher(cr_idx, lits1[1])],
                               !.j = @ + 1, !.i = @ + 1]
                ELSE
                LET k == find_new(S.assignments, lits1, 2)
                IN  IF k # -1
                    THEN \* move the watch to lits[k]
                    LET lits2 == swap(lits1, 1, k)
                        tgt == Lit_not(lits2[2])
                    IN  [L EXCEPT !.S = [S EXCEPT !.clauses[cr_idx + 1].lits = lits2,
                                                  !.watches[tgt] =
                                                      Append(@, Watcher(cr_idx, lits2[1]))],
                                  !.i = @ + 1]
                    ELSE IF value_lit(S.assignments, lits1[1]) = VFalse
                    THEN [L EXCEPT !.S = S1,
                                   !.watchers[L.j + 1] = w,
                                   !.j = @ + 1, !.i = @ + 1,
                                   !.conflict = cr_idx]
                    ELSE [L EXCEPT !.S = unchecked_enqueue(S1, lits1[1], cr_idx),
                                   !.watchers[L.j + 1] = w,
                                   !.j = @ + 1, !.i = @ + 1]

\* an inner loop that forgets the entries it meets after a conflict
watcher_step_dropping(L, p) ==
    IF L.conflict # NoReason THEN [L EXCEPT !.i = @ + 1]
    ELSE IF value_lit(L.S.assignments, L.watchers[L.i + 1].blocker) = VTrue
    THEN [L EXCEPT !.watchers[L.j + 1] = L.watchers[L.i + 1], !.j = @ + 1, !.i = @ + 1]
    ELSE inspect_clause(L, p)

\* lines 272-344: one iteration of the inner while loop
watcher_step(L, p) ==
    LET w == L.watchers[L.i + 1]
    IN  IF L.conflict # NoReason
        THEN [L EXCEPT !.watchers[L.j + 1] = w, !.j = @ + 1, !.i = @ + 1]
        ELSE IF value_lit(L.S.assignments, w.blocker) = VTrue
        THEN [L EXCEPT !.watchers[L.j + 1] = w, !.j = @ + 1, !.i = @ + 1]
        ELSE inspect_clause(L, p)

RECURSIVE watcher_loop(_, _)
watcher_loop(L, p) ==
    IF L.panic \/ L.i >= Len(L.watchers) THEN L
    ELSE watcher_loop(watcher_step(L, p), p)

\* lines 258-344: p is dequeued, its list detached and filtered; the result is
\* the state of the inner loop when it ends.  R is [S, conflict, panic].
detached_loop(R) ==
    LET S == R.S
        p == S.trail[S.q_head + 1]
        S0 == [S EXCEPT !.q_head = @ + 1, !.watches[p] = <<>>]
    IN  watcher_loop([S |-> S0, watchers |-> S.watches[p], i |-> 0, j |-> 0,
                      conflict |-> R.conflict, panic |-> FALSE], p)

\* a reattachment that forgets to truncate the filtered list
dequeue_step_untruncated(R) ==
    LET p == R.S.trail[R.S.q_head + 1]
        L == detached_loop(R)
    IN  IF L.panic THEN [S |-> L.S, conflict |-> L.conflict, panic |-> TRUE]
        ELSE [S |-> [L.S EXCEPT !.watches[p] = L.watchers],
              conflict |-> L.conflict, panic |-> FALSE]

\* lines 258-350: one iteration of the outer loop: dequeue p, detach its list,
\* filter it, reattach it.
dequeue_step(R) ==
    LET p == R.S.trail[R.S.q_head + 1]
        L == detached_loop(R)
    IN  IF L.panic THEN [S |-> L.S, conflict |-> L.conflict, panic |-> TRUE]
        ELSE [S |-> [L.S EXCEPT !.watches[p] = SubSeq(L.watchers, 1, L.j)],
              conflict |-> L.conflict, panic |-> FALSE]

RECURSIVE propagate_loop(_)
propagate_loop(R) ==
    IF R.panic \/ R.conflict # NoReason \/ R.S.q_head >= Len(R.S.trail) THEN R
    ELSE propagate_loop(dequeue_step(R))

propagate(S) == propagate_loop([S |-> S, conflict |-> NoReason, panic |-> FALSE])

-----------------------------------------------------------------------------
\* add_clause.  The result is [S, ok, panic]: the solver after the call and the
\* boolean the call returns.

add_clause(S, lits_in) ==
    IF lits_in = <<>> THEN [S |-> S, ok |-> FALSE, panic |-> FALSE]
    ELSE
    LET lits == dedup(sort_by_key(lits_in))
    IN  IF Len(lits) = 1
        THEN LET R == propagate(unchecked_enqueue(S, lits[1], NoReason))
             IN  [S |-> R.S, ok |-> R.conflict = NoReason, panic |-> R.panic]
        ELSE
        LET clause_idx == Len(S.clauses)
            w1 == Lit_not(lits[1])
            w2 == Lit_not(lits[2])
            S1 == [S EXCEPT !.watches[w1] = Append(@, Watcher(clause_idx, lits[2]))]
            S2 == [S1 EXCEPT !.watches[w2] = Append(@, Watcher(clause_idx, lits[1]))]
        IN  [S |-> [S2 EXCEPT !.clauses = Append(@, [lits |-> lits, learned |-> FALSE])],
             ok |-> TRUE, panic |-> FALSE]

-----------------------------------------------------------------------------
\* analyze (1-UIP).  A loop state A is [seen, toclear, clause, counter, cur, p,
\* index, panic]: cur is current_clause_idx, p the literal resolved on (-1 for
\* None).  An index or counter that would leave its range is a panic.

\* a scan that also takes the literals assigned at the root
scan_lit_with_root(A, S, lit, v) ==
    IF ~A.seen[v]
    THEN IF S.level[v] = decision_level(S)
         THEN [A EXCEPT !.seen[v] = TRUE, !.toclear = Append(@, v),
                        !.counter = @ + 1]
         ELSE [A EXCEPT !.seen[v] = TRUE, !.toclear = Append(@, v),
                        !.clause = Append(@, lit)]
    ELSE A

\* a scan that marks variables without recording them for the next reset
scan_lit_unrecorded(A, S, lit, v) ==
    IF ~A.seen[v] /\ S.level[v] > 0
    THEN IF S.level[v] = decision_level(S)
         THEN [A EXCEPT !.seen[v] = TRUE, !.counter = @ + 1]
         ELSE [A EXCEPT !.seen[v] = TRUE, !.clause = Append(@, lit)]
    ELSE A

\* lines 375-385: one literal of the clause being resolved
scan_lit(A, S, lit, v) ==
    IF ~A.seen[v] /\ S.level[v] > 0
    THEN IF S.level[v] = decision_level(S)
         THEN [A EXCEPT !.seen[v] = TRUE, !.toclear = Append(@, v),
                        !.counter = @ + 1]
         ELSE [A EXCEPT !.seen[v] = TRUE, !.toclear = Append(@, v),
                        !.clause = Append(@, lit)]
    ELSE A

RECURSIVE scan_lits(_, _, _, _)
scan_lits(A, S, lits, i) ==
    IF i >= Len(lits) THEN A
    ELSE IF i = 0 /\ A.p # -1 /\ lits[i + 1] = A.p THEN scan_lits(A, S, lits, i + 1)
    ELSE scan_lits(scan_lit(A, S, lits[i + 1], Lit_var(lits[i + 1])), S, lits, i + 1)

\* while !seen[trail[index - 1].var()] { index -= 1 }: the index reached, or -1
\* when the walk runs off the trail
RECURSIVE walk_back(_, _, _)
walk_back(seen, tr, index) ==
    IF index = 0 THEN -1
    ELSE IF seen[Lit_var(tr[index])] THEN index
    ELSE walk_back(seen, tr, index - 1)

\* lines 391-398: the trail literal found at idx is resolved on
resolve_on(A, S, idx, current_lit) ==
    [A EXCEPT !.index = idx - 1,
               !.p = current_lit,
               !.cur = S.reason[Lit_var(current_lit)],
               !.seen[Lit_var(current_lit)] = FALSE,
               !.counter = @ - 1]

\* lines 369-387
scan_current(A, S) ==
    IF A.cur # NoReason THEN scan_lits(A, S, S.clauses[A.cur + 1].lits, 0) ELSE A

\* lines 389-401, after the scan: A1 is the scanned state, idx the walk's end
RECURSIVE analyze_loop(_, _)
analyze_next(A1, S, idx) ==
    IF idx = -1 \/ A1.counter = 0 THEN [A1 EXCEPT !.panic = TRUE]
    ELSE IF A1.counter = 1 THEN resolve_on(A1, S, idx, S.trail[idx])
    ELSE analyze_loop(resolve_on(A1, S, idx, S.trail[idx]), S)

analyze_walk(A1, S) == analyze_next(A1, S, walk_back(A1.seen, S.trail, A1.index))

analyze_loop(A, S) ==
    IF A.cur # NoReason /\ A.cur >= Len(S.clauses) THEN [A EXCEPT !.panic = TRUE]
    ELSE analyze_walk(scan_current(A, S), S)

\* a backjump level that ignores the learned clause
max_level_root(S, lits, i) == 0

RECURSIVE max_level(_, _, _)
max_level(S, lits, i) ==
    IF i > Len(lits) THEN 0
    ELSE LET m == max_level(S, lits, i + 1)
             l == S.level[Lit_var(lits[i])]
         IN  IF l > m THEN l ELSE m

\* lines 404-410: the learned clause and the backtrack level
analyze_result(S, A, out) ==
    [S |-> [S EXCEPT !.analyze_seen = A.seen, !.analyze_toclear = A.toclear,
                     !.analyze_clause = out],
     learned |-> out,
     bl |-> IF Len(out) > 1 THEN max_level(S, out, 2) ELSE 0,
     panic |-> A.panic]

analyze_finish(S, A) ==
    analyze_result(S, A, IF A.p # -1 THEN <<Lit_not(A.p)>> \o A.clause ELSE A.clause)

\* The result is [S, learned, bl, panic].
analyze(S, cidx) ==
    analyze_finish(S,
        analyze_loop([seen |-> [v \in DOMAIN S.analyze_seen |->
                                   IF v \in Range(S.analyze_toclear) THEN FALSE
                                   ELSE S.analyze_seen[v]],
                      toclear |-> <<>>, clause |-> <<>>,
                      counter |-> 0, cur |-> cidx, p |-> -1,
                      index |-> Len(S.trail), panic |-> FALSE], S))

-----------------------------------------------------------------------------
\* backtrack.  B is [S, calls]: calls logs the on_unassign(var, old_value) calls.

\* an unwinding that leaves the level of the variables it removes
RECURSIVE pop_to_keeping_level(_, _)
pop_to_keeping_level(B, limit) ==
    IF Len(B.S.trail) <= limit THEN B
    ELSE
    LET S == B.S
        v == Lit_var(S.trail[Len(S.trail)])
    IN  pop_to_keeping_level(
            [S |-> [S EXCEPT !.trail = SubSeq(@, 1, Len(@) - 1),
                             !.assignments[v] = Unassigned,
                             !.reason[v] = NoReason],
             calls |-> Append(B.calls, <<v, S.assignments[v] = VTrue>>)], limit)

RECURSIVE pop_to(_, _)
pop_to(B, limit) ==
    IF Len(B.S.trail) <= limit THEN B
    ELSE
    LET S == B.S
        lit == S.trail[Len(S.trail)]
        v == Lit_var(lit)
        old_val == (S.assignments[v] = VTrue)
    IN  pop_to([S |-> [S EXCEPT !.trail = SubSeq(@, 1, Len(@) - 1),
                                !.assignments[v] = Unassigned,
                                !.reason[v] = NoReason,
                                !.level[v] = 0],
                calls |-> Append(B.calls, <<v, old_val>>)], limit)

\* a backtrack that stops one decision level early
RECURSIVE backtrack_loop_shallow(_, _)
backtrack_loop_shallow(B, lvl) ==
    IF decision_level(B.S) <= lvl + 1 THEN B
    ELSE
    LET B1 == pop_to(B, B.S.trail_lim[Len(B.S.trail_lim)])
    IN  backtrack_loop_shallow([B1 EXCEPT !.S.trail_lim = SubSeq(@, 1, Len(@) - 1)], lvl)

RECURSIVE backtrack_loop(_, _)
backtrack_loop(B, lvl) ==
    IF decision_level(B.S) <= lvl THEN B
    ELSE
    LET limit == B.S.trail_lim[Len(B.S.trail_lim)]
        B1 == pop_to(B, limit)
    IN  backtrack_loop([B1 EXCEPT !.S.trail_lim = SubSeq(@, 1, Len(@) - 1)], lvl)

\* a backtrack that leaves the queue head where it was
backtrack_keep_head(S, lvl) == backtrack_loop([S |-> S, calls |-> <<>>], lvl)

backtrack(S, lvl) ==
    LET B == backtrack_loop([S |-> S, calls |-> <<>>], lvl)
    IN  [B EXCEPT !.S.q_head = Len(B.S.trail)]

\* rebuild_watches
RECURSIVE rebuild_from(_, _)
rebuild_from(S, i) ==
    IF i >= Len(S.clauses) THEN S
    ELSE
    LET lits == S.clauses[i + 1].lits
    IN  IF Len(lits) > 1
        THEN LET S1 == [S EXCEPT !.watches[Lit_not(lits[1])] =
                                     Append(@, Watcher(i, lits[2]))]
                 S2 == [S1 EXCEPT !.watches[Lit_not(lits[2])] =
                                     Append(@, Watcher(i, lits[1]))]
             IN  rebuild_from(S2, i + 1)
        ELSE rebuild_from(S, i + 1)

rebuild_watches(S) ==
    rebuild_from([S EXCEPT !.watches = [l \in DOMAIN S.watches |-> <<>>]], 0)

-----------------------------------------------------------------------------
\* preprocessing.rs.  A BitRow is [bits, rhs]: bits is the set of the indices
\* whose bit is set in chunks.  A hash set or map is a set or a function; the
\* source only iterates them to collect, to test membership and to look up.

\* extract_semantic_xors: clauses longer than this are skipped
MaxGateClause == 6
\* extract_semantic_xors: a gate has between MinInputs and MaxInputs neighbours
MinInputs == 2
MaxInputs == 4
\* preprocess: a row with more variables than this makes it abstain
MaxXorExpand == 12
\* apply_replacements: the bound of the substitution chain
MaxDepth == 100

bool_xor(a, b) == a # b

\* (i >> b) & 1 == 1
bit_set(i, b) == ((i \div (2 ^ b)) % 2) = 1

RECURSIVE count_ones(_)
count_ones(i) == IF i = 0 THEN 0 ELSE (i % 2) + count_ones(i \div 2)

\* adj[v]: the indices of the clauses of at most MaxGateClause literals that
\* mention variable v
adj(cls, v) ==
    {i \in 0 .. (Len(cls) - 1) :
        /\ Len(cls[i + 1].lits) <= MaxGateClause
        /\ \E k \in 1 .. Len(cls[i + 1].lits) : Lit_var(cls[i + 1].lits[k]) = v}

neighbors_of(cls, v) ==
    {Lit_var(cls[i + 1].lits[k]) :
        <<i, k>> \in {<<i2, k2>> \in adj(cls, v) \X (1 .. MaxGateClause) :
                          k2 <= Len(cls[i2 + 1].lits)}} \ {v}

\* lines 290-303: the scan of one clause under the input row asg; the result is
\* [sat, target_lit] (target_lit -1 for None).  The scan stops at the first
\* literal the inputs satisfy.
RECURSIVE scan_gate_clause(_, _, _, _, _)
scan_gate_clause(lits, target, asg, k, tlit) ==
    IF k > Len(lits) THEN [sat |-> FALSE, target_lit |-> tlit]
    ELSE
    LET lit == lits[k]
    IN  IF Lit_var(lit) = target
        THEN scan_gate_clause(lits, target, asg, k + 1, lit)
        ELSE IF Lit_var(lit) \in DOMAIN asg
                /\ ((asg[Lit_var(lit)] /\ ~Lit_is_neg(lit))
                    \/ (~asg[Lit_var(lit)] /\ Lit_is_neg(lit)))
        THEN [sat |-> TRUE, target_lit |-> tlit]
        ELSE scan_gate_clause(lits, target, asg, k + 1, tlit)

\* lines 271-346 for one input row: "bad" when the row ends the check with
\* None, else the relation target_val ^ input_parity as "rel0" / "rel1"
row_relation(target, inputs, idxs, cls, asg) ==
    LET scans == [c \in idxs |-> scan_gate_clause(cls[c + 1].lits, target, asg, 1, -1)]
        open == {c \in idxs : ~scans[c].sat}
        forced_true == \E c \in open : scans[c].target_lit # -1
                                       /\ ~Lit_is_neg(scans[c].target_lit)
        forced_false == \E c \in open : scans[c].target_lit # -1
                                        /\ Lit_is_neg(scans[c].target_lit)
        input_parity == (Cardinality({v \in inputs : asg[v]}) % 2) = 1
    IN  IF \E c \in open : scans[c].target_lit = -1 THEN "bad"
        ELSE IF forced_true /\ forced_false THEN "bad"
        ELSE IF ~forced_true /\ ~forced_false THEN "bad"
        ELSE IF bool_xor(forced_true, input_parity) THEN "rel1" ELSE "rel0"

\* Option<bool> as "none" / "rel0" (Some(false)) / "rel1" (Some(true))
check_semantic_xor_logic(target, inputs, idxs, cls) ==
    LET rels == {row_relation(target, inputs, idxs, cls, asg) :
                    asg \in [inputs -> BOOLEAN]}
    IN  IF "bad" \in rels \/ Cardinality(rels) # 1 THEN "none"
        ELSE CHOOSE r \in rels : TRUE

\* The result is [xors, used]: xors a sequence of [vars, rhs], used the set of
\* the clause indices marked for removal.
RECURSIVE extract_from(_, _, _, _)
extract_from(cls, n, v, acc) ==
    IF v >= n THEN acc
    ELSE
    LET idxs == adj(cls, v)
        nb == neighbors_of(cls, v)
    IN  IF idxs = {} \/ Cardinality(nb) < MinInputs \/ Cardinality(nb) > MaxInputs
        THEN extract_from(cls, n, v + 1, acc)
        ELSE
        LET rel == check_semantic_xor_logic(v, nb, idxs, cls)
        IN  IF rel = "none" THEN extract_from(cls, n, v + 1, acc)
            ELSE
            LET all_in == {i \in idxs :
                              \A k \in 1 .. Len(cls[i + 1].lits) :
                                  Lit_var(cls[i + 1].lits[k]) \in (nb \cup {v})}
            IN  extract_from(cls, n, v + 1,
                    [xors |-> Append(acc.xors, [vars |-> nb \cup {v},
                                                rhs |-> (rel = "rel1")]),
                     used |-> acc.used \cup all_in])

extract_semantic_xors(cls, n) == extract_from(cls, n, 0, [xors |-> <<>>, used |-> {}])

\* BitRow::new + set_bit for every variable of the XOR: set_bit ignores an index
\* beyond the chunks, which hold 64 * ((n + 63) / 64) bits
ChunkBits == 64

build_row(xor, n) ==
    [bits |-> {v \in xor.vars : v \div ChunkBits < (n + ChunkBits - 1) \div ChunkBits},
     rhs |-> xor.rhs]

\* a row addition that leaves the right-hand side alone
xor_with_bits_only(a, b) ==
    [bits |-> (a.bits \ b.bits) \cup (b.bits \ a.bits), rhs |-> a.rhs]

xor_with(a, b) ==
    [bits |-> (a.bits \ b.bits) \cup (b.bits \ a.bits), rhs |-> bool_xor(a.rhs, b.rhs)]

is_zero_row(r) == r.bits = {}

\* first r in from .. len-1 with bit col set, or -1
RECURSIVE find_pivot(_, _, _)
find_pivot(m, col, r) ==
    IF r >= Len(m) THEN -1
    ELSE IF col \in m[r + 1].bits THEN r
    ELSE find_pivot(m, col, r + 1)

\* lines 87-112
RECURSIVE eliminate(_, _, _, _)
eliminate(m, n, col, pivot_row_idx) ==
    IF col >= n \/ pivot_row_idx >= Len(m) THEN m
    ELSE
    LET r == find_pivot(m, col, pivot_row_idx)
    IN  IF r = -1 THEN eliminate(m, n, col + 1, pivot_row_idx)
        ELSE
        LET m1 == swap(m, pivot_row_idx, r)
            piv == m1[pivot_row_idx + 1]
            m2 == [i \in 1 .. Len(m1) |->
                      IF i # pivot_row_idx + 1 /\ col \in m1[i].bits
                      THEN xor_with(m1[i], piv) ELSE m1[i]]
        IN  eliminate(m2, n, col + 1, pivot_row_idx + 1)

\* the set bits of a row in increasing order (lines 126-134)
RECURSIVE set_to_sorted_seq(_)
set_to_sorted_seq(b) ==
    IF b = {} THEN <<>>
    ELSE LET m == CHOOSE x \in b : \A y \in b : x <= y
         IN  <<m>> \o set_to_sorted_seq(b \ {m})

\* xor_to_cnf: the clauses of XOR(vs) = rhs, as literal sequences, in the order of i
RECURSIVE xor_to_cnf_from(_, _, _)
xor_to_cnf_from(vs, rhs, i) ==
    IF i >= 2 ^ Len(vs) THEN <<>>
    ELSE
    LET target_negations_parity == IF rhs THEN 0 ELSE 1
    IN  IF count_ones(i) % 2 = target_negations_parity
        THEN <<[lits |-> [k \in 1 .. Len(vs) |-> Lit_new(vs[k], bit_set(i, k - 1))],
                learned |-> FALSE]>> \o xor_to_cnf_from(vs, rhs, i + 1)
        ELSE xor_to_cnf_from(vs, rhs, i + 1)

\* an expansion that takes the clauses of the other parity
xor_to_cnf_flipped(vs, rhs) == xor_to_cnf_from(vs, ~rhs, 0)

xor_to_cnf(vs, rhs) == xor_to_cnf_from(vs, rhs, 0)

\* lines 120-151.  X is [new_xor_clauses, units, replacements, found_conflict,
\* abstain]; replacements is a function target -> [source, invert].
RECURSIVE extract_rows(_, _, _)
extract_rows(m, i, X) ==
    IF i > Len(m) THEN X
    ELSE
    LET row == m[i]
        vs == set_to_sorted_seq(row.bits)
    IN  IF is_zero_row(row)
        THEN IF row.rhs THEN [X EXCEPT !.found_conflict = TRUE]
             ELSE extract_rows(m, i + 1, X)
        ELSE IF Len(vs) = 1
        THEN extract_rows(m, i + 1,
                 [X EXCEPT !.units = Append(@, Lit_new(vs[1], ~row.rhs))])
        ELSE IF Len(vs) = 2
        THEN LET v1 == vs[1]
                 v2 == vs[2]
                 target == IF v1 > v2 THEN v1 ELSE v2
                 source == IF v1 > v2 THEN v2 ELSE v1
                 entry == [source |-> source, invert |-> row.rhs]
             IN  extract_rows(m, i + 1,
                     [X EXCEPT !.replacements =
                         [t \in (DOMAIN @) \cup {target} |->
                             IF t = target THEN entry ELSE @[t]]])
        ELSE IF Len(vs) > MaxXorExpand THEN [X EXCEPT !.abstain = TRUE]
        ELSE extract_rows(m, i + 1,
                 [X EXCEPT !.new_xor_clauses = @ \o xor_to_cnf(vs, row.rhs)])

\* apply_replacements on one literal
RECURSIVE replace_lit(_, _, _, _)
replace_lit(v, is_neg, map, depth) ==
    IF v \notin DOMAIN map THEN Lit_new(v, is_neg)
    ELSE
    LET neg2 == IF map[v].invert THEN ~is_neg ELSE is_neg
    IN  IF depth + 1 > MaxDepth THEN Lit_new(map[v].source, neg2)
        ELSE replace_lit(map[v].source, neg2, map, depth + 1)

apply_replacements(lits, map) ==
    [k \in 1 .. Len(lits) |-> replace_lit(Lit_var(lits[k]), Lit_is_neg(lits[k]), map, 0)]

\* simplify_clause: [lits, taut]: the sorted, deduplicated literals and whether
\* two neighbours share a variable
simplify_clause(lits) ==
    LET l2 == dedup(sort_by_key(lits))
    IN  [lits |-> l2,
         taut |-> \E i \in 1 .. (Len(l2) - 1) : Lit_var(l2[i]) = Lit_var(l2[i + 1])]

\* PreprocessResult and Option::None
NoResult == [some |-> FALSE, clauses |-> <<>>, units |-> <<>>]
Contradiction ==
    [some |-> TRUE, clauses |-> <<[lits |-> <<>>, learned |-> FALSE]>>, units |-> <<>>]

\* lines 165-183: the substitution into a sequence of clauses.  F is
\* [final, empty]: the clauses kept so far, and whether an empty one came up.
RECURSIVE rebuild_clauses(_, _, _, _, _)
rebuild_clauses(cs, i, skip, map, F) ==
    IF F.empty \/ i > Len(cs) THEN F
    ELSE IF (i - 1) \in skip THEN rebuild_clauses(cs, i + 1, skip, map, F)
    ELSE
    LET sc == simplify_clause(apply_replacements(cs[i].lits, map))
    IN  IF sc.taut THEN rebuild_clauses(cs, i + 1, skip, map, F)
        ELSE IF sc.lits = <<>> THEN [F EXCEPT !.empty = TRUE]
        ELSE rebuild_clauses(cs, i + 1, skip, map,
                 [F EXCEPT !.final = Append(@, [lits |-> sc.lits,
                                                learned |-> cs[i].learned])])

\* lines 185-190: abstain when nothing was gained, else the new database
finish_preprocess(cls, X, F) ==
    IF F.empty THEN Contradiction
    ELSE IF Len(F.final) >= Len(cls) /\ X.units = <<>> /\ DOMAIN X.replacements = {}
    THEN NoResult
    ELSE [some |-> TRUE, clauses |-> F.final, units |-> X.units]

\* lines 160-190: the clause database is rebuilt from the rows' outcome X
preprocess_rebuild(cls, used, X) ==
    finish_preprocess(cls, X,
        rebuild_clauses(X.new_xor_clauses, 1, {}, X.replacements,
            rebuild_clauses(cls, 1, used, X.replacements,
                            [final |-> <<>>, empty |-> FALSE])))

\* lines 153-158 and 160-190
preprocess_outcome(cls, used, X) ==
    IF X.abstain THEN NoResult
    ELSE IF X.found_conflict THEN Contradiction
    ELSE preprocess_rebuild(cls, used, X)

\* lines 75-151: matrix, Gaussian elimination, the rows' outcome
preprocess_xors(cls, n, ex) ==
    IF ex.xors = <<>> THEN NoResult
    ELSE preprocess_outcome(cls, ex.used,
             extract_rows(eliminate([i \in 1 .. Len(ex.xors) |-> build_row(ex.xors[i], n)],
                                    n, 0, 0),
                          1,
                          [new_xor_clauses |-> <<>>, units |-> <<>>,
                           replacements |-> [t \in {} |-> 0],
                           found_conflict |-> FALSE, abstain |-> FALSE]))

\* a preprocess that reports the contradiction whatever the clauses are
preprocess_refuting(cls, n) == Contradiction

preprocess(cls, n) == preprocess_xors(cls, n, extract_semantic_xors(cls, n))

\* The extractor with the iteration order of the HashSet neighbors made
\* explicit: neighbor_vec (line 228) is a sequence p of the neighbours in the
\* order the set yields them, and check_semantic_xor_logic runs over the rows
\* i = 0 .. 2^|p| - 1 with bit b of i the value of p[b].

Perms(s) ==
    {p \in [1 .. Cardinality(s) -> s] :
        \A i, j \in 1 .. Cardinality(s) : p[i] = p[j] => i = j}

\* lines 272-281: the assignment of row i
row_assignment(inputs, i) ==
    [v \in Range(inputs) |->
        bit_set(i, (CHOOSE b \in 1 .. Len(inputs) : inputs[b] = v) - 1)]

\* lines 271-346, row after row: expected is expected_relation, "none" for None
RECURSIVE check_rows(_, _, _, _, _, _)
check_rows(target, inputs, idxs, cls, i, expected) ==
    IF i >= 2 ^ Len(inputs) THEN expected
    ELSE
    LET rel == row_relation(target, Range(inputs), idxs, cls, row_assignment(inputs, i))
    IN  IF rel = "bad" THEN "none"
        ELSE IF expected # "none" /\ expected # rel THEN "none"
        ELSE check_rows(target, inputs, idxs, cls, i + 1, rel)

check_semantic_xor_logic_seq(target, inputs, idxs, cls) ==
    check_rows(target, inputs, idxs, cls, 0, "none")

\* a constraint over the target and the first neighbour only
xor_vars_first(p, v) == {p[1], v}

\* lines 234-235: neighbor_vec.clone() and the target
xor_vars(p, v) == Range(p) \cup {v}

\* lines 231-249 for the target v with neighbor_vec = p
extract_var(cls, v, p, acc) ==
    LET idxs == adj(cls, v)
        rel == check_semantic_xor_logic_seq(v, p, idxs, cls)
    IN  IF rel = "none" THEN acc
        ELSE [xors |-> Append(acc.xors, [vars |-> xor_vars(p, v), rhs |-> (rel = "rel1")]),
              used |-> acc.used \cup
                       {i \in idxs :
                           \A k \in 1 .. Len(cls[i + 1].lits) :
                               Lit_var(cls[i + 1].lits[k]) \in (Range(p) \cup {v})}]

\* the results extract_semantic_xors can have, over all iteration orders
RECURSIVE extract_hashed_from(_, _, _, _)
extract_hashed_from(cls, n, v, accs) ==
    IF v >= n THEN accs
    ELSE
    LET idxs == adj(cls, v)
        nb == neighbors_of(cls, v)
    IN  IF idxs = {} \/ Cardinality(nb) < MinInputs \/ Cardinality(nb) > MaxInputs
        THEN extract_hashed_from(cls, n, v + 1, accs)
        ELSE extract_hashed_from(cls, n, v + 1,
                 {extract_var(cls, v, p, acc) : p \in Perms(nb), acc \in accs})

extract_semantic_xors_hashed(cls, n) ==
    extract_hashed_from(cls, n, 0, {[xors |-> <<>>, used |-> {}]})

\* the results preprocess can have, over all iteration orders
preprocess_hashed(cls, n) ==
    {preprocess_xors(cls, n, ex) : ex \in extract_semantic_xors_hashed(cls, n)}

\* lines 438-456 of solve: install what preprocess returned
RECURSIVE enqueue_units(_, _, _)
enqueue_units(S, units, i) ==
    IF i > Len(units) THEN S
    ELSE enqueue_units(unchecked_enqueue(S, units[i], NoReason), units, i + 1)

\* an installation that rebuilds the watch lists whatever preprocess returned
install_always_rebuild(S, res) ==
    IF res.some
    THEN enqueue_units(rebuild_watches([S EXCEPT !.clauses = res.clauses]), res.units, 1)
    ELSE rebuild_watches(S)

install_preprocessed(S, res) ==
    IF res.some
    THEN enqueue_units(rebuild_watches([S EXCEPT !.clauses = res.clauses]), res.units, 1)
    ELSE S

-----------------------------------------------------------------------------
\* The branching heuristics.  A heuristic object is a record H with a field
\* kind: "any" stands for an arbitrary implementation of the trait, "random"
\* for RandomStrategy (lib.rs), "vsids" for VsidsStrategy (main.rs).  A call of
\* pick_branch has the outcome [lit, H, panic]: the literal returned (-1 for
\* None), the heuristic afterwards, and whether the call panicked.

\* u64 and the seed of RandomStrategy::new
WordBits == 64
Seed == 123456789

\* a u64 as the set of the positions of its bits that are 1, bit 0 the lowest;
\* Seed is below 2^31
Word == 0 .. (WordBits - 1)

to_bits(x) == {i \in 0 .. 30 : bit_set(x, i)}

shl(x, k) == {i + k : i \in x} \cap Word

shr(x, k) == {i - k : i \in x} \cap Word

xor_bits(x, y) == (x \ y) \cup (y \ x)

\* 2^i % n for i below WordBits, without a power beyond 2^16
pow(m, q) == IF q = 0 THEN 1 ELSE m ^ q

pow2mod(i, n) == ((pow((2 ^ 16) % n, i \div 16) % n) * ((2 ^ (i % 16)) % n)) % n

\* the sum of 2^i % n over the bits i of x, collected by residue
RECURSIVE weighted(_, _, _)
weighted(x, n, r) ==
    IF r >= n THEN 0
    ELSE r * Cardinality({i \in x : pow2mod(i, n) = r}) + weighted(x, n, r + 1)

\* x % n for n > 0
rem(x, n) == weighted(x, n, 0) % n

\* RandomStrategy::next_rand: the new rng_state, which is also the value
next_rand(x) ==
    LET a == xor_bits(x, shl(x, 13))
        b == xor_bits(a, shr(a, 7))
    IN  xor_bits(b, shl(b, 17))

AnyStrategy == [kind |-> "any"]

RandomStrategy_new(n) == [kind |-> "random", rng_state |-> to_bits(Seed), num_vars |-> n]

\* activity and var_inc are kept up to a common positive factor, as integers:
\* (activity, var_inc) stands for (activity * u, var_inc * u) for some u > 0
VsidsStrategy_new(n) ==
    [kind |-> "vsids", activity |-> [v \in Vars(n) |-> 0], var_inc |-> 1,
     saved_phases |-> [v \in Vars(n) |-> FALSE]]

Outcome(lit, H, panic) == [lit |-> lit, H |-> H, panic |-> panic]

\* the scan of RandomStrategy::pick_branch from start; x is rng_state after
\* the first next_rand.  assignments[idx] panics when idx is out of bounds.
RECURSIVE random_scan(_, _, _, _, _)
random_scan(H, S, x, start, i) ==
    IF i >= H.num_vars THEN Outcome(-1, [H EXCEPT !.rng_state = x], FALSE)
    ELSE
    LET idx == (start + i) % H.num_vars
    IN  IF idx \notin DOMAIN S.assignments
        THEN Outcome(-1, [H EXCEPT !.rng_state = x], TRUE)
        ELSE IF S.assignments[idx] = Unassigned
        THEN LET x2 == next_rand(x)
                 is_neg == 0 \notin x2
             IN  Outcome(Lit_new(idx, is_neg), [H EXCEPT !.rng_state = x2], FALSE)
        ELSE random_scan(H, S, x, start, i + 1)

\* RandomStrategy::pick_branch: the remainder by num_vars = 0 panics
RandomStrategy_pick_branch(H, S) ==
    LET x == next_rand(H.rng_state)
    IN  IF H.num_vars = 0 THEN Outcome(-1, [H EXCEPT !.rng_state = x], TRUE)
        ELSE random_scan(H, S, x, rem(x, H.num_vars), 0)

\* the scan of VsidsStrategy::pick_branch over solver.assignments: best is -1
\* for None, and max is only read when best is a variable (max_activity
\* starts at -1.0, below every activity).  activity[v] panics when v is out
\* of bounds.
RECURSIVE vsids_scan(_, _, _, _, _)
vsids_scan(H, S, v, best, max) ==
    IF v >= S.num_vars THEN [best |-> best, panic |-> FALSE]
    ELSE IF S.assignments[v] # Unassigned THEN vsids_scan(H, S, v + 1, best, max)
    ELSE IF v \notin DOMAIN H.activity THEN [best |-> best, panic |-> TRUE]
    ELSE IF best = -1 \/ H.activity[v] > max
    THEN vsids_scan(H, S, v + 1, v, H.activity[v])
    ELSE vsids_scan(H, S, v + 1, best, max)

VsidsStrategy_pick_branch(H, S) ==
    LET R == vsids_scan(H, S, 0, -1, -1)
    IN  IF R.panic THEN Outcome(-1, H, TRUE)
        ELSE IF R.best = -1 THEN Outcome(-1, H, FALSE)
        ELSE Outcome(Lit_new(R.best, ~H.saved_phases[R.best]), H, FALSE)

\* VsidsStrategy::on_conflict: the activities of the involved variables are
\* bumped by var_inc, then var_inc is multiplied by 1 / 0.95 = 20 / 19, here
\* by 20 with every activity multiplied by 19.  var_rescale_activity
\* multiplies the activities and var_inc by one factor and so leaves this
\* representation as it is.
RECURSIVE bump(_, _, _)
bump(H, involved_vars, k) ==
    IF k > Len(involved_vars) THEN H
    ELSE bump([H EXCEPT !.activity[involved_vars[k]] = @ + H.var_inc], involved_vars, k + 1)

VsidsStrategy_on_conflict(H, involved_vars) ==
    LET B == bump(H, involved_vars, 1)
    IN  [B EXCEPT !.activity = [v \in DOMAIN @ |-> 19 * @[v]], !.var_inc = 20 * @]

\* the hooks of the trait, for the kinds of heuristic
on_conflict(H, involved_vars) ==
    IF H.kind = "vsids" THEN VsidsStrategy_on_conflict(H, involved_vars) ELSE H

on_assign(H, var) == H

on_unassign(H, var, old_value) ==
    IF H.kind = "vsids" THEN [H EXCEPT !.saved_phases[var] = old_value] ELSE H

\* the on_unassign calls of one backtrack, in order
RECURSIVE on_unassign_all(_, _, _)
on_unassign_all(H, bcalls, k) ==
    IF k > Len(bcalls) THEN H
    ELSE on_unassign_all(on_unassign(H, bcalls[k][1], bcalls[k][2]), bcalls, k + 1)

-----------------------------------------------------------------------------
\* The state machine: a caller that builds a solver, inserts clauses and calls
\* solve (run_solver_on_content), and solve's loop, one action per step of it.

Install(S) ==
    /\ num_vars' = S.num_vars
    /\ clauses' = S.clauses
    /\ watches' = S.watches
    /\ assignments' = S.assignments
    /\ level' = S.level
    /\ reason' = S.reason
    /\ trail' = S.trail
    /\ trail_lim' = S.trail_lim
    /\ q_head' = S.q_head
    /\ analyze_seen' = S.analyze_seen
    /\ analyze_toclear' = S.analyze_toclear
    /\ analyze_clause' = S.analyze_clause

\* the arguments of an add_clause call: literal sequences of at most MaxLen
\* literals, in any order, repetitions included
ClauseInputs(n) == UNION {[1 .. k -> Lits(n)] : k \in 0 .. MaxLen}

\* Solver::new(n), a caller that has sc left to do, and the heuristic H
InitWith(n, sc, H) ==
    /\ num_vars = n
    /\ clauses = <<>>
    /\ watches = [l \in Lits(n) |-> <<>>]
    /\ assignments = [v \in Vars(n) |-> Unassigned]
    /\ level = [v \in Vars(n) |-> 0]
    /\ reason = [v \in Vars(n) |-> NoReason]
    /\ trail = <<>>
    /\ trail_lim = <<>>
    /\ q_head = 0
    /\ analyze_seen = [v \in Vars(n) |-> FALSE]
    /\ analyze_toclear = <<>>
    /\ analyze_clause = <<>>
    /\ pc = "input"
    /\ verdict = "none"
    /\ conflict_idx = NoReason
    /\ learned_clause = <<>>
    /\ backtrack_level = 0
    /\ level_before = 0
    /\ inserted = {}
    /\ n_adds = 0
    /\ add_failed = FALSE
    /\ pre_result = NoResult
    /\ calls = <<>>
    /\ script = sc
    /\ heur = H

\* Solver::new(n), and a caller that has sc left to do
InitState(n, sc) == InitWith(n, sc, AnyStrategy)

Init == \E n \in 1 .. MaxVars : InitState(n, <<>>)

\* the caller calls add_clause(lits); run_solver_on_content drops the result
CallAddClause(lits) ==
    /\ pc = "input"
    /\ LET R == add_clause(Self, lits)
       IN  /\ Install(R.S)
           /\ pc' = IF R.panic THEN "done" ELSE "input"
           /\ verdict' = IF R.panic THEN "panic" ELSE "none"
           /\ add_failed' = (add_failed \/ ~R.ok)
    /\ inserted' = inserted \cup {Range(lits)}
    /\ n_adds' = n_adds + 1
    /\ calls' = <<>>
    /\ UNCHANGED <<conflict_idx, learned_clause, backtrack_level, level_before,
                   pre_result, heur>>

\* a caller that inserts any clause it likes, MaxClauses of them at most
AddClause(lits) ==
    /\ script = <<>>
    /\ n_adds < MaxClauses
    /\ CallAddClause(lits)
    /\ UNCHANGED script

\* solve is called: the preprocessing step (lines 438-456)
Preprocess ==
    /\ pc = "input"
    /\ script = <<>>
    /\ LET res == preprocess(clauses, num_vars)
       IN  /\ Install(install_preprocessed(Self, res))
           /\ pre_result' = res
    /\ pc' = "propagate"
    /\ calls' = <<>>
    /\ UNCHANGED <<script, verdict, conflict_idx, learned_clause, backtrack_level,
                   level_before, inserted, n_adds, add_failed, heur>>

\* line 460-462: propagate, and the return of UNSAT on a conflict at the root
Propagate ==
    /\ pc = "propagate"
    /\ LET R == propagate(Self)
       IN  /\ Install(R.S)
           /\ conflict_idx' = R.conflict
           /\ level_before' = decision_level(R.S)
           /\ IF R.panic THEN pc' = "done" /\ verdict' = "panic"
              ELSE IF R.conflict = NoReason THEN pc' = "decide" /\ verdict' = verdict
              ELSE IF decision_level(R.S) = 0 THEN pc' = "done" /\ verdict' = "UNSAT"
              ELSE pc' = "analyze" /\ verdict' = verdict
    /\ calls' = <<>>
    /\ UNCHANGED <<script, learned_clause, backtrack_level, inserted, n_adds, add_failed,
                   pre_result, heur>>

\* lines 465-467: analyze and heuristic.on_conflict
Analyze ==
    /\ pc = "analyze"
    /\ LET R == analyze(Self, conflict_idx)
       IN  /\ Install(R.S)
           /\ learned_clause' = R.learned
           /\ backtrack_level' = R.bl
           /\ IF R.panic
              THEN pc' = "done" /\ verdict' = "panic" /\ calls' = <<>> /\ heur' = heur
              ELSE /\ pc' = "backtrack"
                   /\ verdict' = verdict
                   /\ calls' = <<<<"on_conflict",
                                   [k \in 1 .. Len(R.learned) |-> Lit_var(R.learned[k])]>>>>
                   /\ heur' = on_conflict(heur,
                                   [k \in 1 .. Len(R.learned) |-> Lit_var(R.learned[k])])
    /\ UNCHANGED <<script, conflict_idx, level_before, inserted, n_adds, add_failed, pre_result>>

\* line 470: backtrack(backtrack_level)
Backtrack ==
    /\ pc = "backtrack"
    /\ LET B == backtrack(Self, backtrack_level)
       IN  /\ Install(B.S)
           /\ calls' = [k \in 1 .. Len(B.calls) |->
                           <<"on_unassign", B.calls[k][1], B.calls[k][2]>>]
           /\ heur' = on_unassign_all(heur, B.calls, 1)
    /\ pc' = "learn"
    /\ UNCHANGED <<script, verdict, conflict_idx, learned_clause, backtrack_level, level_before,
                   inserted, n_adds, add_failed, pre_result>>

\* a solve that forgets what it learned
learn_nothing(S, lc) == S

\* a learn that asserts the first literal with no reason
learn_unreasoned(S, lc) ==
    IF lc = <<>> THEN S
    ELSE
    LET lidx == Len(S.clauses)
        c0 == lc[1]
        c1 == IF Len(lc) > 1 THEN lc[2] ELSE c0
        S1 == [[S EXCEPT !.watches[Lit_not(c0)] = Append(@, Watcher(lidx, c1))]
                  EXCEPT !.watches[Lit_not(c1)] = Append(@, Watcher(lidx, c0))]
        S2 == [S1 EXCEPT !.clauses = Append(@, [lits |-> lc, learned |-> TRUE])]
    IN  unchecked_enqueue(S2, c0, NoReason)

\* a learn whose watch entries name their own watched literal as blocker
learn_self_blocked(S, lc) ==
    IF lc = <<>> THEN S
    ELSE
    LET lidx == Len(S.clauses)
        c0 == lc[1]
        c1 == IF Len(lc) > 1 THEN lc[2] ELSE c0
        S1 == [[S EXCEPT !.watches[Lit_not(c0)] = Append(@, Watcher(lidx, c0))]
                  EXCEPT !.watches[Lit_not(c1)] = Append(@, Watcher(lidx, c1))]
        S2 == [S1 EXCEPT !.clauses = Append(@, [lits |-> lc, learned |-> TRUE])]
    IN  unchecked_enqueue(S2, c0, lidx)

\* a learn that puts the watch entries in the list of the asserted literal
learn_watching_asserted(S, lc) ==
    IF lc = <<>> THEN S
    ELSE
    LET lidx == Len(S.clauses)
        c0 == lc[1]
        c1 == IF Len(lc) > 1 THEN lc[2] ELSE c0
        S1 == [[S EXCEPT !.watches[c0] = Append(@, Watcher(lidx, c1))]
                  EXCEPT !.watches[c1] = Append(@, Watcher(lidx, c0))]
        S2 == [S1 EXCEPT !.clauses = Append(@, [lits |-> lc, learned |-> TRUE])]
    IN  unchecked_enqueue(S2, c0, lidx)

\* lines 473-489: the learned clause is stored, watched and asserted
learn(S, lc) ==
    IF lc = <<>> THEN S
    ELSE
    LET lidx == Len(S.clauses)
        c0 == lc[1]
        c1 == IF Len(lc) > 1 THEN lc[2] ELSE c0
        S1 == IF Len(lc) > 1
              THEN [[S EXCEPT !.watches[Lit_not(c0)] = Append(@, Watcher(lidx, c1))]
                       EXCEPT !.watches[Lit_not(c1)] = Append(@, Watcher(lidx, c0))]
              ELSE [[S EXCEPT !.watches[Lit_not(c0)] = Append(@, Watcher(lidx, c0))]
                       EXCEPT !.watches[Lit_not(c0)] = Append(@, Watcher(lidx, c0))]
        S2 == [S1 EXCEPT !.clauses = Append(@, [lits |-> lc, learned |-> TRUE])]
    IN  unchecked_enqueue(S2, c0, lidx)

Learn ==
    /\ pc = "learn"
    /\ Install(learn(Self, learned_clause))
    /\ pc' = "propagate"
    /\ conflict_idx' = NoReason
    /\ calls' = <<>>
    /\ UNCHANGED <<script, verdict, learned_clause, backtrack_level, level_before,
                   inserted, n_adds, add_failed, pre_result, heur>>

\* BranchingStrategy::pick_branch: the literals a heuristic may return, none
\* exactly when no variable is Unassigned (-1 stands for None)
pick_branch(S) ==
    IF \A v \in Vars(S.num_vars) : S.assignments[v] # Unassigned THEN {-1}
    ELSE {Lit_new(v, neg) : v \in {u \in Vars(S.num_vars) :
                                       S.assignments[u] = Unassigned},
                            neg \in BOOLEAN}

\* heuristic.pick_branch(self): the outcomes the call can have
pick_outcomes(H, S) ==
    IF H.kind = "random" THEN {RandomStrategy_pick_branch(H, S)}
    ELSE IF H.kind = "vsids" THEN {VsidsStrategy_pick_branch(H, S)}
    ELSE {Outcome(lit, H, FALSE) : lit \in pick_branch(S)}

\* lines 492-499, Some(lit): a new decision level
decide(S, lit) ==
    unchecked_enqueue([S EXCEPT !.trail_lim = Append(@, Len(S.trail))], lit, NoReason)

Decide(lit) ==
    /\ pc = "decide"
    /\ \E o \in pick_outcomes(heur, Self) :
           /\ ~o.panic
           /\ o.lit = lit
           /\ heur' = on_assign(o.H, Lit_var(lit))
    /\ lit # -1
    /\ Install(decide(Self, lit))
    /\ pc' = "propagate"
    /\ calls' = <<<<"on_assign", Lit_var(lit)>>>>
    /\ UNCHANGED <<script, verdict, conflict_idx, learned_clause, backtrack_level, level_before,
                   inserted, n_adds, add_failed, pre_result>>

\* lines 492-499, None: all assigned, solve returns true
ReturnSat ==
    /\ pc = "decide"
    /\ \E o \in pick_outcomes(heur, Self) :
           /\ ~o.panic
           /\ o.lit = -1
           /\ heur' = o.H
    /\ pc' = "done"
    /\ verdict' = "SAT"
    /\ calls' = <<>>
    /\ UNCHANGED <<script, solver_vars, conflict_idx, learned_clause, backtrack_level,
                   level_before, inserted, n_adds, add_failed, pre_result>>

Next ==
    \/ \E lits \in ClauseInputs(num_vars) : AddClause(lits)
    \/ Preprocess
    \/ Propagate
    \/ Analyze
    \/ Backtrack
    \/ Learn
    \/ \E lit \in Lits(num_vars) : Decide(lit)
    \/ ReturnSat

Spec == Init /\ [][Next]_vars

-----------------------------------------------------------------------------
\* A caller that follows a script: the formulas below, written as the signed
\* integers of the input format, inserted with add_clause or, for the last
\* one, stored through the public field Solver.clauses.

\* parse_lit: the literal of a signed integer
parse_lit(val) == Lit_new((IF val < 0 THEN -val ELSE val) - 1, val < 0)

parse_clause(c) == [k \in 1 .. Len(c) |-> parse_lit(c[k])]

add_ops(f) == [k \in 1 .. Len(f) |-> [op |-> "add_clause", lits |-> parse_clause(f[k])]]

push_ops(f) == [k \in 1 .. Len(f) |-> [op |-> "push", lits |-> parse_clause(f[k])]]

\* t = a xor b as a gate, one clause of it written twice, a clause holding
\* both t and -t, a <-> b, and the unit t: a = b = false, t = true satisfies it
GateWithTautology ==
    <<<<3, -3, 1, 2>>, <<3, -1, 2>>, <<3, -1, 2>>, <<3, 1, -2>>, <<-3, -1, -2>>,
      <<-1, 2>>, <<1, -2>>, <<3>>>>

\* x1 xor x2 xor x3 = 1 in clauses, the first one twice
XorTriple ==
    <<<<1, 2, 3>>, <<1, 2, 3>>, <<1, -2, -3>>, <<-1, 2, -3>>, <<-1, -2, 3>>>>

\* seven of the eight clauses over three variables: only 1, 2, 3 all true is left
AllButOne ==
    <<<<1, 2, 3>>, <<1, 2, -3>>, <<1, -2, 3>>, <<1, -2, -3>>,
      <<-1, 2, 3>>, <<-1, 2, -3>>, <<-1, -2, 3>>>>

\* eight clauses that each hold a variable and its negation, in the order given
TautologyGates ==
    <<<<-3, 3, 1, 2>>, <<-3, 3, -1, -2>>, <<3, -3, 1, -2>>, <<3, -3, -1, 2>>,
      <<-1, 1, 2, -3>>, <<-1, 1, -2, 3>>, <<1, -1, 2, 3>>, <<1, -1, -2, -3>>>>

\* x1 xor x2 xor x3 = 1 as above, then the units x1 and x2: the last clause
\* implies x3 while the caller is still inserting
XorTripleThenUnits == XorTriple \o <<<<1>>, <<2>>>>

\* x1 xor x3 xor x4 = 1, x2 xor x3 xor x4 = 1, x3 xor x4 xor x5 = 1 over five
\* variables: the reduced matrix has the rows x1 xor x5 = 0 and x2 xor x5 = 0
SharedTarget ==
    <<<<1, 3, 4>>, <<1, -3, -4>>, <<-1, 3, -4>>, <<-1, -3, 4>>,
      <<2, 3, 4>>, <<2, -3, -4>>, <<-2, 3, -4>>, <<-2, -3, 4>>,
      <<3, 4, 5>>, <<3, -4, -5>>, <<-3, 4, -5>>, <<-3, -4, 5>>>>

\* the chain x1 xor x2 = 1, x2 xor x3 = 1, x3 xor x1 = 0, two clauses each
XorChain ==
    <<<<1, 2>>, <<-1, -2>>, <<2, 3>>, <<-2, -3>>, <<3, -1>>, <<-3, 1>>>>

\* the units x1 and x2 first, then a clause that both of them falsify
UnitsFirst == <<<<1>>, <<2>>, <<-1, -2>>>>

\* x2 -> x3, x1 /\ x3 -> x4, and not both x3 and x4: after the decisions x1
\* and x2 the conflict has the implied literal x3 as its first implication point
ImpliedUip == <<<<-2, 3>>, <<-1, -3, 4>>, <<-3, -4>>>>

ScriptVars == 3
WideVars == 5

Scripts ==
    {add_ops(GateWithTautology), add_ops(XorTriple), add_ops(AllButOne),
     push_ops(TautologyGates), add_ops(XorTripleThenUnits), add_ops(XorChain),
     add_ops(UnitsFirst)}

InitPre ==
    \/ \E sc \in Scripts : InitState(ScriptVars, sc)
    \/ \E f \in {SharedTarget, ImpliedUip} : InitState(WideVars, add_ops(f))

\* the next operation of the script is an add_clause call
AddScripted ==
    /\ script # <<>>
    /\ Head(script).op = "add_clause"
    /\ CallAddClause(Head(script).lits)
    /\ script' = Tail(script)

\* the next operation of the script stores a clause in the public field
\* Solver.clauses (lits as given, no watcher)
PushClause ==
    /\ pc = "input"
    /\ script # <<>>
    /\ Head(script).op = "push"
    /\ clauses' = Append(clauses, [lits |-> Head(script).lits, learned |-> FALSE])
    /\ inserted' = inserted \cup {Range(Head(script).lits)}
    /\ script' = Tail(script)
    /\ calls' = <<>>
    /\ UNCHANGED <<num_vars, watches, assignments, level, reason, trail, trail_lim,
                   q_head, analyze_seen, analyze_toclear, analyze_clause, pc, verdict,
                   conflict_idx, learned_clause, backtrack_level, level_before,
                   n_adds, add_failed, pre_result, heur>>

NextPre ==
    \/ AddScripted
    \/ PushClause
    \/ Preprocess
    \/ Propagate
    \/ Analyze
    \/ Backtrack
    \/ Learn
    \/ \E lit \in Lits(num_vars) : Decide(lit)
    \/ ReturnSat

SpecPre == InitPre /\ [][NextPre]_vars

-----------------------------------------------------------------------------
\* Callers with the reference heuristics: one that builds a solver for n
\* variables, n = 0 included, inserts what it likes and solves with
\* RandomStrategy::new(n) or VsidsStrategy::new(n); and run_solver_on_content
\* on the formulas above, which solves with RandomStrategy.  The preprocessing
\* step takes any iteration order of the hash sets.

RunScripts ==
    {add_ops(GateWithTautology), add_ops(XorTriple), add_ops(AllButOne),
     add_ops(TautologyGates), add_ops(XorTripleThenUnits), add_ops(XorChain)}

InitRun ==
    \/ \E n \in 0 .. MaxVars : InitWith(n, <<>>, RandomStrategy_new(n))
    \/ \E n \in 0 .. MaxVars : InitWith(n, <<>>, VsidsStrategy_new(n))
    \/ \E sc \in RunScripts : InitWith(ScriptVars, sc, RandomStrategy_new(ScriptVars))
    \/ InitWith(WideVars, add_ops(SharedTarget), RandomStrategy_new(WideVars))

PreprocessHashed ==
    /\ pc = "input"
    /\ script = <<>>
    /\ \E res \in preprocess_hashed(clauses, num_vars) :
           /\ Install(install_preprocessed(Self, res))
           /\ pre_result' = res
    /\ pc' = "propagate"
    /\ calls' = <<>>
    /\ UNCHANGED <<script, verdict, conflict_idx, learned_clause, backtrack_level,
                   level_before, inserted, n_adds, add_failed, heur>>

\* lines 492: the call of pick_branch panics
PickPanics ==
    /\ pc = "decide"
    /\ \E o \in pick_outcomes(heur, Self) :
           /\ o.panic
           /\ heur' = o.H
    /\ pc' = "done"
    /\ verdict' = "panic"
    /\ calls' = <<>>
    /\ UNCHANGED <<script, solver_vars, conflict_idx, learned_clause, backtrack_level,
                   level_before, inserted, n_adds, add_failed, pre_result>>

NextRun ==
    \/ \E lits \in ClauseInputs(num_vars) : AddClause(lits)
    \/ AddScripted
    \/ PreprocessHashed
    \/ Propagate
    \/ Analyze
    \/ Backtrack
    \/ Learn
    \/ \E lit \in Lits(num_vars) : Decide(lit)
    \/ ReturnSat
    \/ PickPanics

SpecRun == InitRun /\ [][NextRun]_vars

-----------------------------------------------------------------------------
\* The properties.  A formula over the inserted clauses reads them as sets of
\* literals; m ranges over the total assignments of the num_vars variables.

clause_true(m, c) == \E l \in c : m[Lit_var(l)] = ~Lit_is_neg(l)

Satisfiable(F, n) == \E m \in [Vars(n) -> BOOLEAN] : \A c \in F : clause_true(m, c)

solve_returned == pc = "done" /\ verdict \in {"SAT", "UNSAT"}

\* C1: when solve returns true, the final assignments make every clause that
\* was passed to add_clause true: each has a literal whose value is True.
C1_SatAssignmentSatisfiesInserted ==
    verdict = "SAT" =>
        \A c \in inserted : \E l \in c : value_lit(assignments, l) = VTrue

\* C2: the solver decides satisfiability: an unsatisfiable set of inserted
\* clauses makes solve return false, and SAT is returned only when the
\* inserted clauses are satisfiable.
C2_DecidesSatisfiability ==
    /\ solve_returned /\ ~Satisfiable(inserted, num_vars) => verdict = "UNSAT"
    /\ verdict = "SAT" => Satisfiable(inserted, num_vars)

\* C3: when solve returns false, no total assignment satisfies all inserted
\* clauses, preprocessing or not.
C3_UnsatOnlyWhenUnsatisfiable ==
    verdict = "UNSAT" => ~Satisfiable(inserted, num_vars)

\* the part of solve that runs once it is called
SolveStep ==
    \/ Preprocess
    \/ Propagate
    \/ Analyze
    \/ Backtrack
    \/ Learn
    \/ \E lit \in Lits(num_vars) : Decide(lit)
    \/ ReturnSat

\* solve has been called and has not returned
Running == pc \notin {"input", "done"}

\* a step of solve: each of them moves pc (a step of SolveStep outside "input")
Advance ==
    /\ Running
    /\ pc' \in {"propagate", "decide", "analyze", "backtrack", "learn", "done"}
    /\ pc' # pc

\* solve is one sequential loop: while it has not returned, its next step is
\* taken.  Every running state has a step of SolveStep, so this is weak
\* fairness of SolveStep.
FairSpec == Spec /\ WF_pc(Advance)

\* C4: once solve is called it returns a verdict: the propagate / analyze /
\* backtrack / decide loop does not run forever.
C4_SolveTerminates == (pc # "input") ~> solve_returned

C4_ReturnedAfterLearning ==
    /\ solve_returned
    /\ \E i \in 1 .. Len(clauses) : clauses[i].learned
    /\ Len(clauses) >= 3

\* C5: with the unit clauses [x] and [-x] inserted, solve returns UNSAT.
C5_ComplementaryUnitsUnsat ==
    (/\ solve_returned
     /\ \E v \in Vars(num_vars) :
            {Lit_new(v, FALSE)} \in inserted /\ {Lit_new(v, TRUE)} \in inserted)
    => verdict = "UNSAT"

\* C6: if an empty clause was inserted, or some add_clause call returned false,
\* solve returns false and never SAT.
C6_InsertionFailureIsUnsat ==
    (solve_returned /\ (add_failed \/ {} \in inserted)) => verdict = "UNSAT"

LearnAsserts ==
    /\ level_before > 0
    /\ backtrack_level < level_before
    /\ decision_level(Self) = backtrack_level
    /\ learned_clause # <<>>
    /\ value_lit(assignments, learned_clause[1]) = Unassigned
    /\ \A k \in 2 .. Len(learned_clause) :
           value_lit(assignments, learned_clause[k]) = VFalse
    /\ value_lit(assignments', learned_clause[1]) = VTrue
    /\ level'[Lit_var(learned_clause[1])] = backtrack_level

\* C8: for a conflict analysed at level d > 0, analyze returns (learned, bl)
\* with bl < d; in the state reached by backtrack(bl) every literal of learned
\* but the first is False and the first is Unassigned, and the enqueue that
\* follows makes the first literal True at level bl.
C8_LearnedClauseAsserts == [][pc = "learn" => LearnAsserts]_vars

C8_AssertedAfterBackjump ==
    /\ pc = "propagate"
    /\ Len(learned_clause) >= 2
    /\ backtrack_level >= 1
    /\ level_before > backtrack_level
    /\ clauses # <<>>
    /\ clauses[Len(clauses)].lits = learned_clause
    /\ reason[Lit_var(learned_clause[1])] = Len(clauses) - 1
    /\ value_lit(assignments, learned_clause[1]) = VTrue

idle ==
    /\ pc \in {"input", "decide"}
    /\ ~add_failed
    /\ q_head = Len(trail)

\* C9: whenever propagate has returned without conflict and nothing is left to
\* propagate, every stored clause of two or more literals has a watched
\* literal (position 0 or 1) that is True, or both watched literals Unassigned.
C9_TwoWatchedInvariant ==
    idle =>
        \A i \in 1 .. Len(clauses) :
            Len(clauses[i].lits) >= 2 =>
                \/ value_lit(assignments, clauses[i].lits[1]) = VTrue
                \/ value_lit(assignments, clauses[i].lits[2]) = VTrue
                \/ /\ value_lit(assignments, clauses[i].lits[1]) = Unassigned
                   /\ value_lit(assignments, clauses[i].lits[2]) = Unassigned

on_trail(v) == {i \in 1 .. Len(trail) : Lit_var(trail[i]) = v}

\* C10: no variable occurs twice on the trail; a variable has a value exactly
\* when one literal of it is on the trail, and that literal is the one its
\* value makes true; a variable not on the trail has level 0 and no reason.
C10_TrailConsistent ==
    \A v \in Vars(num_vars) :
        /\ Cardinality(on_trail(v)) <= 1
        /\ (assignments[v] # Unassigned) <=> (Cardinality(on_trail(v)) = 1)
        /\ \A i \in on_trail(v) : value_lit(assignments, trail[i]) = VTrue
        /\ on_trail(v) = {} => (level[v] = 0 /\ reason[v] = NoReason)

C10_AfterBacktrack ==
    /\ pc = "learn"
    /\ trail # <<>>
    /\ Len(calls) >= 2
    /\ \E v \in Vars(num_vars) : assignments[v] = Unassigned

\* the number of decision levels opened at or before the 0-based trail
\* position i
levels_up_to(i) == Cardinality({k \in 1 .. Len(trail_lim) : trail_lim[k] <= i})

\* C11: for every trail position i, the level of the variable at i is the
\* number of trail_lim entries that are <= i, and the literal at each
\* trail_lim position (the decision that opened the level) has no reason.
C11_LevelMatchesTrailLim ==
    /\ \A j \in 1 .. Len(trail) :
           level[Lit_var(trail[j])] = levels_up_to(j - 1)
    /\ \A k \in 1 .. Len(trail_lim) :
           /\ trail_lim[k] < Len(trail)
           /\ reason[Lit_var(trail[trail_lim[k] + 1])] = NoReason

C11_TwoLevelsWithImplied ==
    /\ Len(trail_lim) = 2
    /\ Len(trail) > trail_lim[2] + 1
    /\ reason[Lit_var(trail[Len(trail)])] # NoReason
    /\ level[Lit_var(trail[Len(trail)])] = 2

TrailLimOrdered ==
    /\ \A k \in 1 .. Len(trail_lim) - 1 : trail_lim[k] < trail_lim[k + 1]
    /\ \A k \in 1 .. Len(trail_lim) : trail_lim[k] <= Len(trail)
    /\ q_head <= Len(trail)

\* a step of solve that takes the literal the heuristic returned (lines 492-497)
DecisionStep == pc = "decide" /\ pc' = "propagate"

\* C12: trail_lim is strictly increasing, each of its entries is at most
\* |trail|, and q_head is at most |trail|; a decision opens one level at the
\* end of the trail and extends the trail by exactly one literal.
C12_TrailLimIncreasing ==
    /\ []TrailLimOrdered
    /\ [][DecisionStep => /\ Len(trail') = Len(trail) + 1
                          /\ trail_lim' = Append(trail_lim, Len(trail))]_vars

C12_SecondDecisionTaken ==
    /\ pc = "propagate"
    /\ Len(trail_lim) = 2
    /\ trail_lim[2] = Len(trail) - 1
    /\ q_head = Len(trail) - 1

\* the variable of the first literal a step puts on the trail
first_enqueued ==
    IF Len(trail') > Len(trail) /\ SubSeq(trail', 1, Len(trail)) = trail
    THEN {Lit_var(trail'[Len(trail) + 1])}
    ELSE {}

\* the variables of all the literals a step puts on the trail
all_enqueued ==
    IF Len(trail') > Len(trail) /\ SubSeq(trail', 1, Len(trail)) = trail
    THEN {Lit_var(trail'[j]) : j \in Len(trail) + 1 .. Len(trail')}
    ELSE {}

\* the variables a step assigns by enqueuing the literal of a unit clause at
\* the root level: the unit given to add_clause (lines 193-196, what follows
\* it on the trail is propagated), the units of a preprocessing result
\* (lines 450-452), and the literal of a learned clause of one literal
\* (line 488)
input_units ==
    IF pc = "input" /\ pc' = "input" /\ trail_lim = <<>> THEN first_enqueued
    ELSE IF pc = "input" /\ pc' = "propagate" /\ trail_lim = <<>> THEN all_enqueued
    ELSE {}

learned_units ==
    IF pc = "learn" /\ Len(learned_clause) = 1 /\ trail_lim = <<>>
    THEN first_enqueued ELSE {}

decisions == IF DecisionStep THEN first_enqueued ELSE {}

\* an assigned variable keeps its reason for as long as it stays assigned
ReasonKept ==
    \A v \in Vars(num_vars) :
        (assignments[v] # Unassigned /\ assignments'[v] # Unassigned)
            => reason'[v] = reason[v]

\* C13 as stated: the reason is none for every variable assigned as a decision
\* and for every variable assigned by enqueuing a unit clause at the root level.
C13_NoReasonForDecisionsAndRootUnits ==
    [][/\ ReasonKept
       /\ \A v \in decisions \cup input_units \cup learned_units :
              reason'[v] = NoReason]_vars

\* C13 as the code has it: the reason is none for a decision and for a unit
\* enqueued by add_clause or taken from a preprocessing result; the literal of
\* a learned clause of one literal, enqueued at the root level, has the index
\* of that learned clause as its reason.
C13_NoReasonExceptLearnedUnits ==
    [][/\ ReasonKept
       /\ \A v \in decisions \cup input_units : reason'[v] = NoReason
       /\ \A v \in learned_units :
              /\ v = Lit_var(learned_clause[1])
              /\ reason'[v] = Len(clauses)
              /\ level'[v] = 0
              /\ clauses'[reason'[v] + 1].lits = learned_clause]_vars

C13_LearnedUnitAtRoot ==
    /\ pc = "propagate"
    /\ Len(learned_clause) = 1
    /\ trail_lim = <<>>
    /\ clauses # <<>>
    /\ clauses[Len(clauses)].learned
    /\ clauses[Len(clauses)].lits = learned_clause
    /\ reason[Lit_var(learned_clause[1])] = Len(clauses) - 1
    /\ level[Lit_var(learned_clause[1])] = 0
    /\ \E v \in Vars(num_vars) : level[v] = 0 /\ assignments[v] # Unassigned
                                  /\ reason[v] = NoReason

\* C14: a clause stored at index i stays at index i with the same literal set
\* in every later state, the clause vector never shrinks, and an index held
\* in reason[] keeps denoting the clause that was stored under it.
C14_ClauseIndicesStable ==
    [][/\ Len(clauses') >= Len(clauses)
       /\ \A i \in 1 .. Len(clauses) :
              Range(clauses'[i].lits) = Range(clauses[i].lits)
       /\ \A v \in Vars(num_vars) :
              (reason[v] # NoReason /\ reason'[v] = reason[v])
                  => /\ reason[v] < Len(clauses')
                     /\ Range(clauses'[reason[v] + 1].lits)
                            = Range(clauses[reason[v] + 1].lits)]_vars

\* the step of solve that runs preprocess and installs its result (lines 438-456)
PreprocessStep == pc = "input" /\ pc' = "propagate"

\* C15: when preprocess returns None, solve leaves the clause vector, every
\* watch list, the trail, q_head and the assignments as they were and enters
\* the CDCL loop with them.
C15_AbstainLeavesSolverUntouched ==
    [][(PreprocessStep /\ ~preprocess(clauses, num_vars).some)
          => /\ clauses' = clauses
             /\ watches' = watches
             /\ trail' = trail
             /\ q_head' = q_head
             /\ assignments' = assignments]_vars

C15_AbstainedWithMovedWatch ==
    /\ pc = "propagate"
    /\ learned_clause = <<>>
    /\ trail_lim = <<>>
    /\ ~pre_result.some
    /\ clauses # <<>>
    /\ trail # <<>>
    /\ rebuild_watches(Self).watches # watches

all_assigned == \A v \in Vars(num_vars) : assignments[v] # Unassigned

\* C16: where solve calls pick_branch of RandomStrategy or VsidsStrategy, the
\* call returns none if and only if every variable of the solver is assigned,
\* and otherwise a literal of a variable that is Unassigned.
C16_PickBranchNoneIffAllAssigned ==
    (pc = "decide" /\ heur.kind \in {"random", "vsids"})
        => \A o \in pick_outcomes(heur, Self) :
               /\ ~o.panic
               /\ (o.lit = -1) <=> all_assigned
               /\ o.lit # -1 => assignments[Lit_var(o.lit)] = Unassigned

\* C17: a solver created with num_vars = 0 and no clauses, solved with
\* RandomStrategy::new(0), returns true; solve does not end in a panic.
C17_EmptyFormulaIsSat ==
    (num_vars = 0 /\ n_adds = 0 /\ heur.kind = "random")
        => /\ verdict # "panic"
           /\ pc = "done" => verdict = "SAT"

\* C18: a run of the solver is determined by its input and the seed: the
\* result of the preprocessing step is the same for every iteration order of
\* the hash sets, the random heuristic starts from the seed and each call of
\* pick_branch has one outcome, given by the solver and rng_state.
C18_RunDetermined ==
    /\ [](pc = "input" /\ heur.kind = "random" => heur.rng_state = to_bits(Seed))
    /\ [][/\ PreprocessStep
              => /\ preprocess_hashed(clauses, num_vars) = {preprocess(clauses, num_vars)}
                 /\ pre_result' = preprocess(clauses, num_vars)
          /\ pc = "decide" => Cardinality(pick_outcomes(heur, Self)) = 1]_vars

C18_PreprocessedThenDecided ==
    /\ pc = "done"
    /\ verdict = "SAT"
    /\ pre_result.some
    /\ heur.kind = "random"
    /\ heur.rng_state # to_bits(Seed)
    /\ trail_lim # <<>>

\* the matrix of preprocess after Gaussian elimination (lines 76-112)
reduced_matrix(cls, n) ==
    LET ex == extract_semantic_xors(cls, n)
    IN  eliminate([i \in 1 .. Len(ex.xors) |-> build_row(ex.xors[i], n)], n, 0, 0)

\* what the rows are turned into (lines 115-151)
rows_outcome(cls, n) ==
    extract_rows(reduced_matrix(cls, n), 1,
                 [new_xor_clauses |-> <<>>, units |-> <<>>,
                  replacements |-> [t \in {} |-> 0],
                  found_conflict |-> FALSE, abstain |-> FALSE])

\* m is a model of the result res, its units included, with each replaced
\* variable set as the replacement map says
model_of_output(m, res, map) ==
    /\ \A i \in 1 .. Len(res.clauses) : clause_true(m, Range(res.clauses[i].lits))
    /\ \A k \in 1 .. Len(res.units) : clause_true(m, {res.units[k]})
    /\ \A t \in DOMAIN map : m[t] = (m[map[t].source] # map[t].invert)

row_holds(m, row) == ((Cardinality({v \in row.bits : m[v]}) % 2) = 1) = row.rhs

\* C19: when preprocess returns a result, every non-zero row of the reduced
\* matrix holds under every model of the output clauses that makes the
\* returned units true and sets the replaced variables by the replacement map.
C19_EmittedRowsHold ==
    [][(PreprocessStep /\ pre_result'.some)
          => LET rows == reduced_matrix(clauses, num_vars)
                 map == rows_outcome(clauses, num_vars).replacements
             IN  \A m \in [Vars(num_vars) -> BOOLEAN] :
                     model_of_output(m, pre_result', map)
                         => \A i \in 1 .. Len(rows) :
                                is_zero_row(rows[i]) \/ row_holds(m, rows[i])]_vars

\* solve has been called on the clauses of XorChain
chain_solving ==
    /\ num_vars = ScriptVars
    /\ script = <<>>
    /\ pc # "input"
    /\ inserted = {Range(parse_clause(XorChain[k])) : k \in 1 .. Len(XorChain)}

\* C20 as stated: for the XOR chain the verdict is UNSAT and preprocess
\* returns the contradiction result (a zero row with right-hand side 1)
\* instead of abstaining.
C20_ChainRefutedByPreprocess ==
    chain_solving
        => /\ pre_result = Contradiction
           /\ pc = "done" => verdict = "UNSAT"

\* the assignment satisfies every clause of XorChain
chain_satisfied ==
    \A k \in 1 .. Len(XorChain) :
        \E l \in Range(parse_clause(XorChain[k])) : value_lit(assignments, l) = VTrue

\* C20 as the code has it: the XOR chain is satisfiable (x1 = x3, x2 the
\* opposite); the extractor finds no XOR, preprocess abstains and leaves the
\* six clauses, and solve returns SAT with an assignment that satisfies them.
C20_ChainSatisfiedBySearch ==
    chain_solving
        => /\ pre_result = NoResult
           /\ extract_semantic_xors(clauses, num_vars).xors = <<>>
           /\ \A i \in 1 .. Len(XorChain) :
                  Range(clauses[i].lits) = Range(parse_clause(XorChain[i]))
           /\ pc = "done" => (verdict = "SAT" /\ chain_satisfied)

C20_ChainSolved ==
    /\ chain_solving
    /\ pc = "done"
    /\ verdict = "SAT"
    /\ ~pre_result.some
    /\ chain_satisfied
    /\ Satisfiable(inserted, num_vars)

-----------------------------------------------------------------------------
\* Propagation results

\* solve's call of propagate has just returned None
propagate_returned_none == pc = "decide"

\* the literals of the clause stored at index c that have value val
lits_with(c, val) ==
    {k \in 1 .. Len(clauses[c + 1].lits) :
         value_lit(assignments, clauses[c + 1].lits[k]) = val}

\* C21: whenever propagate returns no conflict the queue is drained and no
\* stored clause of two or more literals has all of its literals False,
\* whatever the order of the add_clause calls before.
C21_NoFalsifiedClauseAfterPropagate ==
    propagate_returned_none =>
        /\ q_head = Len(trail)
        /\ \A c \in 0 .. Len(clauses) - 1 :
               Len(clauses[c + 1].lits) >= 2 =>
                   lits_with(c, VFalse) # 1 .. Len(clauses[c + 1].lits)

\* C22: whenever propagate returns no conflict, no stored clause of two or
\* more literals is unit: one literal Unassigned and every other one False.
C22_NoUnitClauseAfterPropagate ==
    propagate_returned_none =>
        \A c \in 0 .. Len(clauses) - 1 :
            Len(clauses[c + 1].lits) >= 2 =>
                ~ /\ Cardinality(lits_with(c, Unassigned)) = 1
                  /\ Cardinality(lits_with(c, VFalse)) = Len(clauses[c + 1].lits) - 1

\* the inner loop of propagate run up to the moment a conflict is recorded
RECURSIVE watcher_loop_to_conflict(_, _)
watcher_loop_to_conflict(L, p) ==
    IF L.panic \/ L.conflict # NoReason \/ L.i >= Len(L.watchers) THEN L
    ELSE watcher_loop_to_conflict(watcher_step(L, p), p)

\* the solver as it is when propagate, called on R.S, starts its last dequeue
RECURSIVE last_dequeue(_)
last_dequeue(R) ==
    IF R.S.q_head >= Len(R.S.trail) THEN R
    ELSE LET N == dequeue_step(R)
         IN  IF N.panic \/ N.conflict # NoReason THEN R ELSE last_dequeue(N)

\* the inner loop of that last dequeue, at the moment the conflict is recorded
at_conflict(S) ==
    LET B == last_dequeue([S |-> S, conflict |-> NoReason, panic |-> FALSE]).S
        p == B.trail[B.q_head + 1]
    IN  watcher_loop_to_conflict(
            [S |-> [B EXCEPT !.q_head = @ + 1, !.watches[p] = <<>>],
             watchers |-> B.watches[p], i |-> 0, j |-> 0,
             conflict |-> NoReason, panic |-> FALSE], p)

\* propagate called on S returns a conflict index
returns_conflict(S) == LET R == propagate(S) IN R.conflict # NoReason /\ ~R.panic

\* every literal of the returned clause is False when propagate returns
conflict_clause_false(S) ==
    LET R == propagate(S)
    IN  \A k \in 1 .. Len(R.S.clauses[R.conflict + 1].lits) :
            value_lit(R.S.assignments, R.S.clauses[R.conflict + 1].lits[k]) = VFalse

\* between the recording of the conflict and the return the solver is left
\* alone, and the list put back is the kept entries followed by the rest of
\* the detached list
conflict_tail_kept(S) ==
    LET R == propagate(S)
        Lc == at_conflict(S)
        p == R.S.trail[R.S.q_head]
    IN  /\ R.conflict = Lc.conflict
        /\ R.S.trail = Lc.S.trail
        /\ R.S.assignments = Lc.S.assignments
        /\ R.S.clauses = Lc.S.clauses
        /\ \A l \in Lits(S.num_vars) : l # p => R.S.watches[l] = Lc.S.watches[l]
        /\ R.S.watches[p] = SubSeq(Lc.watchers, 1, Lc.j)
                                \o SubSeq(Lc.watchers, Lc.i + 1, Len(Lc.watchers))

\* the solvers on which the program calls propagate from the current state:
\* solve's loop, and add_clause of a unit
propagate_calls ==
    IF pc = "propagate" THEN {Self}
    ELSE IF pc = "input"
    THEN {unchecked_enqueue(Self, l, NoReason) : l \in Lits(num_vars)}
    ELSE {}

\* C23: when propagate returns a conflict index, every literal of that clause
\* is False; and from the recording of the conflict to the return no literal
\* is enqueued and the remaining entries of the detached watch list are kept
\* unchanged.
C23_ConflictClauseFalseAndTailKept ==
    \A S \in propagate_calls :
        returns_conflict(S) => conflict_clause_false(S) /\ conflict_tail_kept(S)

\* a conflict is recorded with entries of the detached list still to visit
C23_ConflictBeforeEndOfList ==
    /\ pc = "propagate"
    /\ returns_conflict(Self)
    /\ at_conflict(Self).i < Len(at_conflict(Self).watchers)

\* the position on the trail of the literal of variable v (0 when there is none)
trail_pos(v) == IF on_trail(v) = {} THEN 0 ELSE CHOOSE i \in on_trail(v) : TRUE

\* C24: for every assigned variable v with reason[v] = c, the clause stored at
\* index c holds the True literal of v at position 0, and every other literal
\* of it is False and was put on the trail before v.
C24_ReasonValid ==
    \A v \in Vars(num_vars) :
        (assignments[v] # Unassigned /\ reason[v] # NoReason) =>
            /\ reason[v] < Len(clauses)
            /\ LET lits == clauses[reason[v] + 1].lits
               IN  /\ lits # <<>>
                   /\ Lit_var(lits[1]) = v
                   /\ value_lit(assignments, lits[1]) = VTrue
                   /\ \A k \in 2 .. Len(lits) :
                          /\ value_lit(assignments, lits[k]) = VFalse
                          /\ trail_pos(Lit_var(lits[k])) < trail_pos(v)

-----------------------------------------------------------------------------
\* Watch lists

\* the watch entries that reference clause index c, as <<list, position>>
entries_of(c) ==
    {e \in Lits(num_vars) \X (1 .. Len(clauses) * 2 + 2) :
         e[2] <= Len(watches[e[1]]) /\ watches[e[1]][e[2]].clause_idx = c}

\* through one call of propagate, nothing is in the slot of the detached list
\* when the filtered list is put back
RECURSIVE slot_stays_empty(_)
slot_stays_empty(R) ==
    IF R.panic \/ R.conflict # NoReason \/ R.S.q_head >= Len(R.S.trail) THEN TRUE
    ELSE /\ detached_loop(R).S.watches[R.S.trail[R.S.q_head + 1]] = <<>>
         /\ slot_stays_empty(dequeue_step(R))

\* C25: outside a dequeue step every stored clause of two or more literals is
\* referenced by exactly two watch entries, one in the list of the negation
\* of its literal at position 0 and one in the list of the negation of its
\* literal at position 1; and nothing is pushed to the slot of a detached
\* list before the list is put back.
C25_TwoWatchEntriesPerClause ==
    /\ verdict # "panic" =>
           \A c \in 0 .. Len(clauses) - 1 :
               Len(clauses[c + 1].lits) >= 2 =>
                   /\ Cardinality(entries_of(c)) = 2
                   /\ {e[1] : e \in entries_of(c)} =
                          {Lit_not(clauses[c + 1].lits[1]), Lit_not(clauses[c + 1].lits[2])}
    /\ \A S \in propagate_calls :
           slot_stays_empty([S |-> S, conflict |-> NoReason, panic |-> FALSE])

\* a watch has migrated and a learned clause of two or more literals is installed
C25_MigratedAndLearned ==
    /\ pc = "decide"
    /\ \E c \in 1 .. Len(clauses) : clauses[c].learned /\ Len(clauses[c].lits) >= 2
    /\ \E c \in 1 .. Len(clauses) :
           ~clauses[c].learned /\ Len(clauses[c].lits) >= 3
               /\ clauses[c].lits[2] > clauses[c].lits[3]

\* the watch entries of the solver, as <<list, position>>
watch_entries ==
    {e \in Lits(num_vars) \X (1 .. Len(clauses) * 2 + 2) : e[2] <= Len(watches[e[1]])}

entry(e) == watches[e[1]][e[2]]

\* the literals at positions 0 and 1 of the clause stored at index c
watched(c) ==
    {clauses[c + 1].lits[k] : k \in {1, 2} \cap (1 .. Len(clauses[c + 1].lits))}

\* C26 as stated: for every watch entry (c, blocker) in the list of a watched
\* literal of clause c, blocker is the literal at the other one of positions
\* 0 and 1 of c.
C26_BlockerIsOtherWatched ==
    verdict # "panic" =>
        \A e \in watch_entries :
            LET c == entry(e).clause_idx
            IN  (c < Len(clauses) /\ Lit_not(e[1]) \in watched(c)) =>
                    /\ entry(e).blocker \in watched(c)
                    /\ entry(e).blocker # Lit_not(e[1])

\* C26, amended: the blocker of a watch entry (c, blocker) in the list of a
\* watched literal l of clause c is a literal of c; when c has two or more
\* literals it is another literal than l (the other watched literal when the
\* entry is written, which a later migration of the other watch may move out
\* of positions 0 and 1); when c is a learned unit clause it is l itself.
C26_BlockerIsAnotherLiteral ==
    verdict # "panic" =>
        \A e \in watch_entries :
            LET c == entry(e).clause_idx
            IN  (c < Len(clauses) /\ Lit_not(e[1]) \in watched(c)) =>
                    /\ entry(e).blocker \in Range(clauses[c + 1].lits)
                    /\ Len(clauses[c + 1].lits) >= 2 => entry(e).blocker # Lit_not(e[1])
                    /\ Len(clauses[c + 1].lits) = 1 => entry(e).blocker = Lit_not(e[1])

\* an entry whose blocker has left positions 0 and 1 of its clause
C26_StaleBlocker ==
    /\ pc = "decide"
    /\ \E e \in watch_entries :
           /\ entry(e).clause_idx < Len(clauses)
           /\ Len(clauses[entry(e).clause_idx + 1].lits) >= 3
           /\ Lit_not(e[1]) \in watched(entry(e).clause_idx)
           /\ entry(e).blocker = clauses[entry(e).clause_idx + 1].lits[3]

\* C27: the blocker of every watch entry (c, blocker) is a literal of the
\* clause stored at index c, so that a True blocker means clause c has a True
\* literal; also after watcher migration, learned-clause installation and
\* rebuild_watches.
C27_BlockerOccursInClause ==
    verdict # "panic" =>
        \A e \in watch_entries :
            /\ entry(e).clause_idx < Len(clauses)
            /\ entry(e).blocker \in Range(clauses[entry(e).clause_idx + 1].lits)
            /\ value_lit(assignments, entry(e).blocker) = VTrue =>
                   \E k \in 1 .. Len(clauses[entry(e).clause_idx + 1].lits) :
                       value_lit(assignments, clauses[entry(e).clause_idx + 1].lits[k]) = VTrue

\* after rebuild_watches: an entry with a True blocker, and an entry whose
\* blocker a migration has moved out of the watched positions
C27_TrueBlockerAfterRebuild ==
    /\ pc = "decide"
    /\ pre_result.some
    /\ \E e \in watch_entries : value_lit(assignments, entry(e).blocker) = VTrue
    /\ \E e \in watch_entries : entry(e).blocker \notin watched(entry(e).clause_idx)

\* the literals that propagate, called on S, dequeues
dequeued(S) ==
    LET R == propagate(S)
    IN  {R.S.trail[i] : i \in S.q_head + 1 .. R.S.q_head}

\* the clause indices in the list that propagate detaches for p
listed(S, p) == {S.watches[p][k].clause_idx : k \in 1 .. Len(S.watches[p])}

\* C28: propagate never visits the watch entries of a learned unit clause:
\* the negation of a learned unit literal is never dequeued, and no list that
\* propagate detaches holds an entry of a clause of fewer than two literals
\* (so no one-literal clause is loaded or has positions 0 and 1 swapped).
C28_UnitEntriesNeverVisited ==
    \A S \in propagate_calls :
        /\ ~propagate(S).panic
        /\ \A p \in dequeued(S) :
               /\ \A c \in listed(S, p) \cup listed(propagate(S).S, p) :
                      c < Len(S.clauses) /\ Len(S.clauses[c + 1].lits) >= 2
               /\ \A c \in 1 .. Len(S.clauses) :
                      (S.clauses[c].learned /\ Len(S.clauses[c].lits) = 1) =>
                          p # Lit_not(S.clauses[c].lits[1])

\* a learned unit clause is installed with its two entries, and propagate has
\* run on a decision taken after it
C28_DecidedAfterLearnedUnit ==
    /\ pc = "decide"
    /\ trail_lim # <<>>
    /\ \E c \in 1 .. Len(clauses) :
           /\ clauses[c].learned
           /\ Len(clauses[c].lits) = 1
           /\ Cardinality({e \in watch_entries : entry(e).clause_idx = c - 1}) = 2

-----------------------------------------------------------------------------
\* Backtracking and conflict analysis

min(a, b) == IF a < b THEN a ELSE b

\* the variables that S has assigned at a level above lvl
above(S, lvl) ==
    {v \in Vars(S.num_vars) : S.assignments[v] # Unassigned /\ S.level[v] > lvl}

\* what backtrack(lvl), called on S, leaves behind
backtrack_effect(S, lvl) ==
    LET B == backtrack(S, lvl)
        T == B.S
    IN  /\ decision_level(T) = min(decision_level(S), lvl)
        /\ T.trail_lim = SubSeq(S.trail_lim, 1, Len(T.trail_lim))
        /\ \A v \in above(S, lvl) :
               /\ T.assignments[v] = Unassigned
               /\ T.level[v] = 0
               /\ T.reason[v] = NoReason
        /\ \A v \in Vars(S.num_vars) \ above(S, lvl) :
               /\ T.assignments[v] = S.assignments[v]
               /\ T.level[v] = S.level[v]
               /\ T.reason[v] = S.reason[v]
        /\ T.trail = SubSeq(S.trail, 1, Len(T.trail))
        /\ Len(T.trail) = Len(S.trail) - Cardinality(above(S, lvl))
        /\ T.clauses = S.clauses
        /\ T.watches = S.watches
        /\ Len(B.calls) = Cardinality(above(S, lvl))
        /\ Range(B.calls) = {<<v, S.assignments[v] = VTrue>> : v \in above(S, lvl)}
        /\ T.q_head = Len(T.trail)

\* C29: backtrack(level) from decision level d leaves the decision level at
\* min(d, level); exactly the variables assigned above level become
\* Unassigned with level 0 and no reason; the trail prefix and the values,
\* levels and reasons of the other variables, the clauses and the watch lists
\* are unchanged; on_unassign is called once per removed variable with its
\* previous value; and q_head = |trail|.
C29_BacktrackEffect ==
    pc = "backtrack" => \A lvl \in 0 .. MaxVars : backtrack_effect(Self, lvl)

\* solve's backtrack has removed two variables and kept a decision level
C29_RemovedTwoKeptOne ==
    /\ pc = "learn"
    /\ Len(calls) >= 2
    /\ trail_lim # <<>>

\* the shape of the clause and level that analyze, called on S for the
\* conflict cidx at decision level d > 0, returns
learned_shape(S, cidx) ==
    LET R == analyze(S, cidx)
        lc == R.learned
        d == decision_level(S)
    IN  /\ ~R.panic
        /\ lc # <<>>
        /\ Lit_not(lc[1]) \in Range(S.trail)
        /\ S.level[Lit_var(lc[1])] = d
        /\ \A k \in 2 .. Len(lc) : S.level[Lit_var(lc[k])] < d
        /\ \A k \in 1 .. Len(lc) : S.level[Lit_var(lc[k])] > 0
        /\ \A k, m \in 1 .. Len(lc) : k # m => Lit_var(lc[k]) # Lit_var(lc[m])
        /\ \A k \in 1 .. Len(lc) : value_lit(S.assignments, lc[k]) = VFalse
        /\ \A k \in 2 .. Len(lc) : S.level[Lit_var(lc[k])] <= R.bl
        /\ Len(lc) >= 2 => \E k \in 2 .. Len(lc) : S.level[Lit_var(lc[k])] = R.bl
        /\ R.bl = 0 <=> Len(lc) = 1

\* C30: for a conflict at decision level d > 0 the clause analyze returns
\* starts with the negation of a trail literal of level d, its only literal
\* of level d; it has no literal of level 0 and no variable twice; all its
\* literals are False at the time of the conflict; and bl is the maximum
\* level of the literals after the first, 0 exactly when the clause is a unit.
C30_LearnedClauseShape ==
    (pc = "analyze" /\ decision_level(Self) > 0) => learned_shape(Self, conflict_idx)

\* analyze has returned a clause of two or more literals whose first literal
\* negates an implied literal, not the decision
C30_LearnedAtImpliedUip ==
    /\ pc = "backtrack"
    /\ Len(learned_clause) >= 2
    /\ reason[Lit_var(learned_clause[1])] # NoReason

-----------------------------------------------------------------------------
\* Conflict handling in solve

\* the variables of the literals of lc, in order
vars_of(lc) == [k \in 1 .. Len(lc) |-> Lit_var(lc[k])]

\* a conflict above the root goes to analyze; its result goes to on_conflict
ConflictAnalysed ==
    /\ (pc = "propagate" /\ pc' # "decide" /\ Len(trail_lim') > 0) => pc' = "analyze"
    /\ pc = "analyze" =>
           /\ pc' = "backtrack"
           /\ calls' = <<<<"on_conflict", vars_of(learned_clause')>>>>
           /\ clauses' = clauses
           /\ trail' = trail

\* then backtrack(bl), and nothing else
BacktrackedToLevel ==
    pc = "backtrack" =>
        /\ pc' = "learn"
        /\ Len(trail_lim') = backtrack_level
        /\ clauses' = clauses
        /\ \A k \in 1 .. Len(calls') : calls'[k][1] = "on_unassign"

\* then the learned clause is appended, watched and asserted, and propagate
\* is next
LearnedInstalled ==
    pc = "learn" =>
        /\ pc' = "propagate"
        /\ learned_clause # <<>>
        /\ clauses' = Append(clauses, [lits |-> learned_clause, learned |-> TRUE])
        /\ Len(learned_clause) >= 2 =>
               \A k \in {1, 2} :
                   watches'[Lit_not(learned_clause[k])] =
                       Append(watches[Lit_not(learned_clause[k])],
                              Watcher(Len(clauses), learned_clause[3 - k]))
        /\ reason'[Lit_var(learned_clause[1])] = Len(clauses)
        /\ Len(trail_lim') = backtrack_level
        /\ value_lit(assignments', learned_clause[1]) = VTrue
        /\ level'[Lit_var(learned_clause[1])] = backtrack_level
        /\ trail' = Append(trail, learned_clause[1])
        /\ q_head' = Len(trail)

\* C31: on a conflict at level d > 0 solve runs analyze, then on_conflict with
\* the variables of the learned clause, then backtrack(bl), then appends the
\* learned clause, marked learned, at the next free index with watches on
\* learned[0] and learned[1], then enqueues learned[0] with that index as
\* reason; when the next propagate starts the decision level is bl and
\* learned[0] is True at level bl and the only unpropagated trail entry.
C31_ConflictHandlingOrdered ==
    [][ConflictAnalysed /\ BacktrackedToLevel /\ LearnedInstalled]_vars

\* the next propagate is about to start on an installed learned clause of two
\* or more literals
C31_LearnedInstalledBeforePropagate ==
    /\ pc = "propagate"
    /\ Len(learned_clause) >= 2
    /\ clauses # <<>>
    /\ clauses[Len(clauses)] = [lits |-> learned_clause, learned |-> TRUE]
    /\ q_head = Len(trail) - 1
    /\ trail[Len(trail)] = learned_clause[1]
    /\ calls = <<>>

\* C32: whenever solve calls analyze (a conflict at level d > 0) the conflict
\* clause has a literal assigned at level d and analyze neither decrements a
\* zero counter nor walks off the front of the trail nor indexes outside the
\* clause vector; and every variable marked seen is in the to-clear list, so
\* that the next call starts with an empty seen set.
C32_AnalyzeStaysInRange ==
    /\ (pc = "analyze" /\ decision_level(Self) > 0) =>
           /\ conflict_idx < Len(clauses)
           /\ \E k \in 1 .. Len(clauses[conflict_idx + 1].lits) :
                  level[Lit_var(clauses[conflict_idx + 1].lits[k])] = decision_level(Self)
           /\ ~analyze(Self, conflict_idx).panic
    /\ \A v \in Vars(num_vars) : analyze_seen[v] => v \in Range(analyze_toclear)

\* analyze is called again while marks of the call before are still set
C32_SecondAnalyzeWithMarks ==
    /\ pc = "analyze"
    /\ decision_level(Self) > 0
    /\ \E v \in Vars(num_vars) : analyze_seen[v]

-----------------------------------------------------------------------------
\* Preprocessing results

\* the variables v for which the extractor, run on cls, emits the constraint x:
\* v is the gate output, the other variables of x are its neighbours
emitters(cls, n, x) ==
    {v \in x.vars \cap Vars(n) :
        /\ neighbors_of(cls, v) = x.vars \ {v}
        /\ Cardinality(x.vars) - 1 >= MinInputs
        /\ Cardinality(x.vars) - 1 <= MaxInputs
        /\ check_semantic_xor_logic(v, x.vars \ {v}, adj(cls, v), cls)
               = IF x.rhs THEN "rel1" ELSE "rel0"}

\* the clauses marked as consumed when v emits x (lines 241-249)
consumed(cls, v, x) ==
    {i \in adj(cls, v) :
        \A k \in 1 .. Len(cls[i + 1].lits) : Lit_var(cls[i + 1].lits[k]) \in x.vars}

\* the XOR of the variables of x equals its right-hand side under m
xor_holds(m, x) == ((Cardinality({v \in x.vars : m[v]}) % 2) = 1) = x.rhs

\* C33: every XOR constraint the extractor emits is equivalent to the
\* conjunction of the clauses it marks as consumed: an assignment satisfies
\* those clauses exactly when the XOR of the listed variables equals rhs.
C33_XorEquivalentToConsumed ==
    pc = "input" =>
        LET ex == extract_semantic_xors(clauses, num_vars)
        IN  \A k \in 1 .. Len(ex.xors) :
                \A v \in emitters(clauses, num_vars, ex.xors[k]) :
                    \A m \in [Vars(num_vars) -> BOOLEAN] :
                        (\A i \in consumed(clauses, v, ex.xors[k]) :
                             clause_true(m, Range(clauses[i + 1].lits)))
                        <=> xor_holds(m, ex.xors[k])

-----------------------------------------------------------------------------
\* The matrix steps of preprocess on their own: the rows built from the
\* extracted constraints (lines 75-83) are reduced (lines 85-112), and a
\* reduced row of three or more variables is expanded by xor_to_cnf (lines
\* 146-150).  The script holds the matrix, then the reduced matrix, then the
\* expansion of one row.

RowVars == 4
MaxRows == 3

\* a row as build_row makes it from an extracted constraint: the output of a
\* gate and MinInputs to MaxInputs inputs
RowInputs ==
    {[bits |-> b, rhs |-> r] :
        b \in {x \in SUBSET Vars(RowVars) :
                  Cardinality(x) >= MinInputs + 1 /\ Cardinality(x) <= MaxInputs + 1},
        r \in BOOLEAN}

Matrices == UNION {[1 .. k -> RowInputs] : k \in 1 .. MaxRows}

InitRows == \E m \in Matrices : InitState(RowVars, <<[op |-> "matrix", rows |-> m]>>)

\* lines 85-112
Eliminate ==
    /\ pc = "input"
    /\ script # <<>>
    /\ Head(script).op = "matrix"
    /\ script' = <<[op |-> "reduced", input |-> Head(script).rows,
                    rows |-> eliminate(Head(script).rows, num_vars, 0, 0)]>>
    /\ UNCHANGED <<solver_vars, pc, verdict, conflict_idx, learned_clause,
                   backtrack_level, level_before, inserted, n_adds, add_failed,
                   pre_result, calls, heur>>

\* lines 124-150 for row i of the reduced matrix: three or more variables, at
\* most MaxXorExpand
ExpandRow(i) ==
    /\ pc = "input"
    /\ script # <<>>
    /\ Head(script).op = "reduced"
    /\ i \in 1 .. Len(Head(script).rows)
    /\ LET row == Head(script).rows[i]
       IN  /\ Cardinality(row.bits) > 2
           /\ Cardinality(row.bits) <= MaxXorExpand
           /\ script' = <<[op |-> "expanded", vs |-> set_to_sorted_seq(row.bits),
                           rhs |-> row.rhs,
                           clauses |-> xor_to_cnf(set_to_sorted_seq(row.bits), row.rhs)]>>
    /\ UNCHANGED <<solver_vars, pc, verdict, conflict_idx, learned_clause,
                   backtrack_level, level_before, inserted, n_adds, add_failed,
                   pre_result, calls, heur>>

NextRows ==
    \/ Eliminate
    \/ \E i \in 1 .. MaxRows : ExpandRow(i)

SpecRows == InitRows /\ [][NextRows]_vars

\* the leading column of a non-zero row
pivot(row) == CHOOSE c \in row.bits : \A d \in row.bits : c <= d

\* m is in reduced row-echelon form
reduced_echelon(m) ==
    /\ \A i \in 1 .. Len(m) : ~is_zero_row(m[i]) =>
           \A j \in 1 .. Len(m) : j # i => pivot(m[i]) \notin m[j].bits
    /\ \A i, j \in 1 .. Len(m) :
           (i < j /\ ~is_zero_row(m[i]) /\ ~is_zero_row(m[j])) => pivot(m[i]) < pivot(m[j])
    /\ \A i, j \in 1 .. Len(m) : (is_zero_row(m[i]) /\ ~is_zero_row(m[j])) => j < i

\* the assignments that satisfy every row of m
solutions(m, n) ==
    {a \in [Vars(n) -> BOOLEAN] : \A i \in 1 .. Len(m) : row_holds(a, m[i])}

matrix_reduced == script # <<>> /\ Head(script).op = "reduced"

\* C34: the elimination leaves a reduced row-echelon matrix over GF(2) with
\* the solution set of the input rows: each pivot column is set in exactly
\* one row, the pivots are in strictly increasing columns, the all-zero rows
\* are below the pivot rows, and the same assignments satisfy both matrices.
C34_EliminationReducesAndPreserves ==
    matrix_reduced =>
        /\ Len(Head(script).rows) = Len(Head(script).input)
        /\ reduced_echelon(Head(script).rows)
        /\ solutions(Head(script).rows, num_vars) = solutions(Head(script).input, num_vars)

\* three rows were reduced to two pivot rows and a zero row, with rows added
\* to each other on the way
C34_ReducedWithZeroRow ==
    /\ matrix_reduced
    /\ Len(Head(script).rows) = 3
    /\ is_zero_row(Head(script).rows[3])
    /\ ~is_zero_row(Head(script).rows[2])
    /\ Head(script).rows[1] # Head(script).input[1]
    /\ Head(script).input[1] # Head(script).input[2]
    /\ Head(script).input[2] # Head(script).input[3]
    /\ Head(script).input[1] # Head(script).input[3]

\* C35: every row of the reduced matrix with exactly two variables v1 < v2
\* and right-hand side r is in the replacement map as v2 -> (v1, negated iff
\* r), no other row having overwritten the entry.
C35_TwoVariableRowsApplied ==
    pc = "input" =>
        LET rows == reduced_matrix(clauses, num_vars)
            map == rows_outcome(clauses, num_vars).replacements
        IN  \A i \in 1 .. Len(rows) :
                Cardinality(rows[i].bits) = 2 =>
                    LET vs == set_to_sorted_seq(rows[i].bits)
                    IN  /\ vs[2] \in DOMAIN map
                        /\ map[vs[2]] = [source |-> vs[1], invert |-> rows[i].rhs]

row_expanded == script # <<>> /\ Head(script).op = "expanded"

\* the number of negated literals of a clause
negations(lits) == Cardinality({j \in 1 .. Len(lits) : Lit_is_neg(lits[j])})

\* C36: xor_to_cnf(vars, rhs) for k distinct variables returns 2^(k-1)
\* clauses, each holding every variable once, with an even number of
\* negations when rhs = 1 and an odd number when rhs = 0; an assignment
\* satisfies all of them exactly when the XOR of the variables equals rhs.
C36_XorToCnfExact ==
    row_expanded =>
        LET vs == Head(script).vs
            rhs == Head(script).rhs
            cs == Head(script).clauses
        IN  /\ Len(cs) = 2 ^ (Len(vs) - 1)
            /\ Cardinality(Range(cs)) = Len(cs)
            /\ \A i \in 1 .. Len(cs) :
                   /\ Len(cs[i].lits) = Len(vs)
                   /\ \A j \in 1 .. Len(vs) : Lit_var(cs[i].lits[j]) = vs[j]
                   /\ negations(cs[i].lits) % 2 = (IF rhs THEN 0 ELSE 1)
            /\ \A m \in [Vars(num_vars) -> BOOLEAN] :
                   (\A i \in 1 .. Len(cs) : clause_true(m, Range(cs[i].lits)))
                   <=> xor_holds(m, [vars |-> Range(vs), rhs |-> rhs])

\* a row of four variables with right-hand side 0 was expanded
C36_ExpandedFourVariables ==
    /\ row_expanded
    /\ Len(Head(script).vs) = 4
    /\ ~Head(script).rhs
    /\ Head(script).clauses # <<>>

\* the state solve's preprocessing step leaves when it installs a result: every
\* clause is watched through its first two literals or is a unit whose
\* literal is True at the root, and every returned unit is True at the root
\* unless the root assignment contradicts it
installed_complete ==
    /\ \A c \in 0 .. Len(clauses') - 1 :
           \/ /\ Len(clauses'[c + 1].lits) >= 2
              /\ \A k \in {1, 2} :
                     \E i \in 1 .. Len(watches'[Lit_not(clauses'[c + 1].lits[k])]) :
                         watches'[Lit_not(clauses'[c + 1].lits[k])][i].clause_idx = c
           \/ /\ Len(clauses'[c + 1].lits) = 1
              /\ value_lit(assignments', clauses'[c + 1].lits[1]) = VTrue
              /\ level'[Lit_var(clauses'[c + 1].lits[1])] = 0
    /\ \A k \in 1 .. Len(pre_result'.units) :
           \/ /\ value_lit(assignments', pre_result'.units[k]) = VTrue
              /\ level'[Lit_var(pre_result'.units[k])] = 0
           \/ value_lit(assignments, pre_result'.units[k]) = VFalse

====
